---------------------------- MODULE Spec2Model ----------------------------
(***************************************************************************)
(* A model of the PDF annotation tool (src/main.py): the annotation Store, *)
(* the pointer-driven box edit state machine of PDFAnnotationApp, the      *)
(* per-document JSON sidecar, heading auto-detection, text extraction and  *)
(* the COCO / YOLO exporters.                                              *)
(*                                                                         *)
(* Numbers.  Python floats are modelled as exact rationals <<n, d>> in     *)
(* lowest terms with d > 0; "*" and "/" are RMul and RDiv.  IEEE rounding  *)
(* is not part of the model.                                               *)
(*                                                                         *)
(* Handlers.  Every method of PDFAnnotationApp is an operator from a state *)
(* record (one field per attribute, plus the files on disk and the one     *)
(* canvas item the code reads back) to the state record after the call, so *)
(* that a handler that calls other methods is their composition.  The      *)
(* field exc is TRUE when the call ended in an uncaught exception: Tk      *)
(* reports it and the main loop goes on with the state as it then was.     *)
(***************************************************************************)
EXTENDS Integers, Sequences, FiniteSets, TLC

\* Python's None, for the attributes that otherwise hold a tuple or a dict.
None == << >>
\* self.current_pdf = None / self.doc = None (documents are numbered from 1).
NoDoc == 0
\* self.resize_handle = None (handles are numbered 0..7).
NoHandle == -1

\* ----------------------------------------------------------------- bounds
\* Pointer-down events in one session.
MaxGestures == 2
\* Largest zoom the model zooms in to, in tenths (the code has no maximum).
MaxZoomTenths == 15
\* Largest Store the model lets draw / auto-detect grow (the code has none).
MaxAnns == 7

\* -------------------------------------------------------------- rationals
RECURSIVE GCD(_, _)
GCD(a, b) == IF b = 0 THEN a ELSE GCD(b, a % b)

IAbs(i) == IF i < 0 THEN -i ELSE i

\* n/d in lowest terms, d > 0 (d # 0 is the caller's duty, as for "/").
Rat(n, d) ==
    LET g == GCD(IAbs(n), IAbs(d))
        s == IF d < 0 THEN -1 ELSE 1
    IN  <<(s * n) \div g, (s * d) \div g>>

R(i) == <<i, 1>>
RAdd(a, b) == Rat(a[1] * b[2] + b[1] * a[2], a[2] * b[2])
RSub(a, b) == Rat(a[1] * b[2] - b[1] * a[2], a[2] * b[2])
RMul(a, b) == Rat(a[1] * b[1], a[2] * b[2])
RDiv(a, b) == Rat(a[1] * b[2], a[2] * b[1])
RLt(a, b) == a[1] * b[2] < b[1] * a[2]
RLe(a, b) == a[1] * b[2] <= b[1] * a[2]
RAbs(a) == <<IAbs(a[1]), a[2]>>
RMax(a, b) == IF RLt(a, b) THEN b ELSE a
RMin2(a, b) == IF RLt(b, a) THEN b ELSE a

\* --------------------------------------------------------- program constants
LABEL_OPTIONS == <<"TITLE", "H1", "H2", "H3", "H4", "BODY">>

\* LABEL_MAP = {name: idx+1 for idx, name in enumerate(LABEL_OPTIONS)}
LABEL_MAP(name) == CHOOSE i \in 1..Len(LABEL_OPTIONS) : LABEL_OPTIONS[i] = name

HANDLE_SIZE == 8

\* on_mouse_up commits a rectangle only if both sides exceed this many pixels.
MIN_BOX == 10

\* change_zoom: zoom = max(0.5, zoom + delta); __init__: zoom = 1.5;
\* the two zoom buttons call change_zoom(0.2) and change_zoom(-0.2).
MIN_ZOOM == <<1, 2>>
INIT_ZOOM == <<3, 2>>
ZoomDeltas == {<<1, 5>>, <<-1, 5>>}

\* ---------------------------------------------------------------- doubles
(***************************************************************************)
(* Python's float is the IEEE 754 binary64 number.  The handlers below     *)
(* compute with the exact quotients; the x axis section computes the       *)
(* coordinates of the selected annotation along the x axis as the          *)
(* interpreter does: every *, /, + and - is rounded to 53 bits, to         *)
(* nearest, a tie going to the even mantissa.  (No value here comes near   *)
(* the range where a double overflows or is subnormal.)                    *)
(*                                                                         *)
(* A natural number of any size is the sequence of its digits to the base  *)
(* Base = 2^14, the lowest first and the highest not 0.                    *)
(***************************************************************************)
Base == 16384

\* Digit i of a, 0 beyond its highest digit.
Limb(a, i) == IF i >= 1 /\ i <= Len(a) THEN a[i] ELSE 0

\* a without its leading zero digits
BNorm(a) ==
    LET nz == {i \in 1..Len(a) : a[i] # 0}
    IN  IF nz = {} THEN << >>
        ELSE SubSeq(a, 1, CHOOSE i \in nz : \A j \in nz : j <= i)

\* a < b
BLess(a, b) ==
    LET n == IF Len(a) < Len(b) THEN Len(b) ELSE Len(a)
    IN  \E i \in 1..n :
           /\ Limb(a, i) < Limb(b, i)
           /\ \A k \in (i + 1)..n : Limb(a, k) = Limb(b, k)

\* a + b: digit i gets a carry when a lower digit makes one and every digit
\* between hands it on.
BAdd(a, b) ==
    LET n == (IF Len(a) < Len(b) THEN Len(b) ELSE Len(a)) + 1
        sum(i) == Limb(a, i) + Limb(b, i)
        carry(i) ==
            IF \E j \in 1..(i - 1) :
                  /\ sum(j) >= Base
                  /\ \A k \in (j + 1)..(i - 1) : sum(k) = Base - 1
            THEN 1 ELSE 0
    IN  BNorm([i \in 1..n |-> (sum(i) + carry(i)) % Base])

\* a - b, where a >= b
BSub(a, b) ==
    LET borrow(i) ==
            IF \E j \in 1..(i - 1) :
                  /\ Limb(a, j) < Limb(b, j)
                  /\ \A k \in (j + 1)..(i - 1) : Limb(a, k) = Limb(b, k)
            THEN 1 ELSE 0
    IN  BNorm([i \in 1..Len(a) |->
                  (Limb(a, i) - Limb(b, i) - borrow(i) + Base) % Base])

\* a * k for one digit k (or k = Base)
BMulK(a, k) ==
    BAdd([i \in 1..Len(a) |-> (a[i] * k) % Base],
         <<0>> \o [i \in 1..Len(a) |-> (a[i] * k) \div Base])

\* a * b for b of at most four digits: the columns of the products of the
\* digits, each column a number of three digits.
BMul(a, b) ==
    LET n == Len(a) + Len(b)
        col == [k \in 1..n |->
                   Limb(a, k) * Limb(b, 1) + Limb(a, k - 1) * Limb(b, 2)
                   + Limb(a, k - 2) * Limb(b, 3) + Limb(a, k - 3) * Limb(b, 4)]
    IN  BAdd(BAdd([k \in 1..n |-> col[k] % Base],
                  <<0>> \o [k \in 1..n |-> (col[k] \div Base) % Base]),
             <<0, 0>> \o [k \in 1..n |-> col[k] \div (Base * Base)])

\* a * 2^n
BShl(a, n) ==
    BNorm([i \in 1..(n \div 14) |-> 0] \o BMulK(a, 2^(n % 14)))

\* a div 2^n
BShr(a, n) ==
    LET w == n \div 14
        t == n % 14
    IN  BNorm([i \in 1..(Len(a) - w) |->
                  Limb(a, i + w) \div 2^t
                  + (Limb(a, i + w + 1) % 2^t) * 2^(14 - t)])

\* The number of bits of a.
BBitLen(a) ==
    IF a = << >> THEN 0
    ELSE 14 * (Len(a) - 1)
         + CHOOSE n \in 1..14 : 2^(n - 1) <= a[Len(a)] /\ a[Len(a)] < 2^n

(***************************************************************************)
(* A double is [s, m, e]: the number s * m * 2^e, with s the sign 1 or -1  *)
(* and m a mantissa of exactly 53 bits; zero is [1, << >>, 0].             *)
(* FRound(s, n, e) is the double nearest to s * n * 2^e.                   *)
(***************************************************************************)
FRound(s, n, e) ==
    LET len == BBitLen(n)
        cut == len - 53
        q == BShr(n, cut)
        rest == BSub(n, BShl(q, cut))
        half == BShl(<<1>>, cut - 1)
        up == BLess(half, rest) \/ (rest = half /\ q[1] % 2 = 1)
        m == IF up THEN BAdd(q, <<1>>) ELSE q
    IN  IF n = << >> THEN [s |-> 1, m |-> << >>, e |-> 0]
        ELSE IF len <= 53
        THEN [s |-> s, m |-> BShl(n, 53 - len), e |-> e - (53 - len)]
        ELSE IF BBitLen(m) > 53
        THEN [s |-> s, m |-> BShr(m, 1), e |-> e + cut + 1]
        ELSE [s |-> s, m |-> m, e |-> e + cut]

\* a * b
FMul(a, b) == FRound(a.s * b.s, BMul(a.m, b.m), a.e + b.e)

\* a * b where the code has a / b
FDivAsMul(a, b) == FMul(a, b)

(***************************************************************************)
(* a / b by long division.  Both mantissas are moved up 3 bits, to four    *)
(* full digits, so that the two highest digits of what is left, divided by *)
(* the divisor's highest digit, are a digit of the quotient or at most 2   *)
(* above it.  Five digits of the quotient are made, 56 or 57 bits, and a   *)
(* lowest bit is added that is set when the division leaves a remainder.   *)
(***************************************************************************)
FDiv(a, b) ==
    LET den == BShl(b.m, 3)
        \* <<digit, what is left>> for the estimate d and d * den
        Fit(r, d, p) ==
            IF ~BLess(r, p) THEN <<d, BSub(r, p)>>
            ELSE IF ~BLess(r, BSub(p, den)) THEN <<d - 1, BSub(r, BSub(p, den))>>
            ELSE <<d - 2, BSub(r, BSub(BSub(p, den), den))>>
        Estimate(top) == IF top > Base - 1 THEN Base - 1 ELSE top
        Digit(r, d) == Fit(r, d, BMulK(den, d))
        RECURSIVE Quot(_, _)
        Quot(r, k) ==
            LET dr == Digit(r, Estimate((Limb(r, 5) * Base + Limb(r, 4))
                                         \div den[4]))
                lower == Quot(BNorm(<<0>> \o dr[2]), k - 1)
            IN  IF k = 0 THEN << <<dr[1]>>, dr[2] >>
                ELSE <<lower[1] \o <<dr[1]>>, lower[2]>>
        qr == Quot(BShl(a.m, 3), 4)
    IN  IF a.m = << >> THEN a
        ELSE FRound(a.s * b.s,
                    BAdd(BMulK(qr[1], 2), IF qr[2] = << >> THEN << >> ELSE <<1>>),
                    a.e - b.e - 57)

\* a + b
FAdd(a, b) ==
    LET e == IF a.e < b.e THEN a.e ELSE b.e
        x == BShl(a.m, a.e - e)
        y == BShl(b.m, b.e - e)
    IN  IF a.m = << >> THEN b
        ELSE IF b.m = << >> THEN a
        ELSE IF a.s = b.s THEN FRound(a.s, BAdd(x, y), e)
        ELSE IF BLess(x, y) THEN FRound(b.s, BSub(y, x), e)
        ELSE FRound(a.s, BSub(x, y), e)

\* a - b
FSub(a, b) == FAdd(a, [b EXCEPT !.s = IF b.m = << >> THEN 1 ELSE -b.s])

\* a < b
FLess(a, b) == FSub(a, b).s = -1

\* The double of a literal or of an int: r is <<numerator, denominator>>.
FOf(r) ==
    LET OfInt(i) ==
            FRound(IF i < 0 THEN -1 ELSE 1,
                   BNorm([k \in 1..3 |-> (IAbs(i) \div Base^(k - 1)) % Base]),
                   0)
    IN  IF r[2] = 1 THEN OfInt(r[1]) ELSE FDiv(OfInt(r[1]), OfInt(r[2]))

\* --------------------------------------------------------- the environment
(***************************************************************************)
(* Files.  A file is named by a number whose order is the lexicographic    *)
(* order of its path; files 1 and 2 are PDFs ("a.pdf", "b.pdf"), file 3 is *)
(* not ("notes.txt").  askdirectory() returns a folder or "" (cancel).     *)
(***************************************************************************)
Docs == {1, 2}
Folders == {"docs", "empty"}
NoFolder == ""
ListDir(folder) == IF folder = "docs" THEN {1, 2, 3} ELSE {3}
IsPdfName(f) == f \in Docs

\* len(doc), and the pixel size of page.get_pixmap() (zoom 1).
NumPages(d) == IF d = 1 THEN 2 ELSE 1
PixWidth(d, p) == 200
PixHeight(d, p) == 400

(***************************************************************************)
(* Page text.  page.get_text("dict") and page.get_text("rawdict") of the   *)
(* same page: the spans in layout order (blocks, lines, spans flattened),  *)
(* each with its rectangle, font size and text; the characters of a span   *)
(* are laid out left to right, 10 units wide, over the span's height.      *)
(***************************************************************************)
Span(x0, y0, x1, y1, size, text) ==
    [bbox |-> <<R(x0), R(y0), R(x1), R(y1)>>, size |-> R(size), text |-> text]

PageSpans(d, p) ==
    IF d = 1 /\ p = 0 THEN
        << Span(10, 20, 110, 70, 20, <<"T", "i", "t", "l", "e">>),
           Span(10, 80, 50, 100, 16, <<"H", "e", "a", "d">>),
           Span(10, 110, 50, 125, 13, <<" ", "S", "u", "b", " ">>),
           Span(10, 130, 50, 142, 10, <<"b", "o", "d", "y">>),
           Span(60, 130, 80, 142, 20, <<"a", "b">>) >>
    ELSE IF d = 1 /\ p = 1 THEN
        << Span(10, 20, 40, 40, 18, <<"O", "n", "e">>),
           Span(10, 50, 40, 66, 14, <<"T", "w", "o">>),
           Span(10, 70, 50, 84, 12, <<" ", "x", "y", "z">>),
           Span(10, 90, 40, 110, 20, <<" ", "a", "b", " ">>) >>
    ELSE << >>

\* The characters of one span, as rawdict gives them: {"c", "bbox"}.
SpanChars(sp) ==
    [i \in 1..Len(sp.text) |->
        [c |-> sp.text[i],
         bbox |-> << RAdd(sp.bbox[1], R(10 * (i - 1))), sp.bbox[2],
                     RAdd(sp.bbox[1], R(10 * i)), sp.bbox[4] >>]]

RECURSIVE Flatten(_)
Flatten(ss) == IF ss = << >> THEN << >> ELSE Head(ss) \o Flatten(Tail(ss))

PageChars(d, p) ==
    Flatten([i \in 1..Len(PageSpans(d, p)) |-> SpanChars(PageSpans(d, p)[i])])

\* ------------------------------------------------------------------ state
VARIABLES
    pdf_files,          \* self.pdf_files: the sorted PDFs of the loaded folder
    current_pdf_index,  \* self.current_pdf_index (0-based)
    current_pdf,        \* self.current_pdf, and self.doc = fitz.open(it)
    current_page,       \* self.current_page (0-based)
    annotations,        \* self.annotations: the Store
    start_x, start_y,   \* anchor of the rectangle being drawn
    temp_rect,          \* self.temp_rect: None or the id of a canvas item
    selected_box,       \* self.selected_box: None or a reference to a dict
    dragging, resizing, resize_handle,
    offset_x, offset_y,
    zoom,
    label_var,          \* the label chosen in the combobox
    item,               \* canvas.coords(temp_rect): None once the item is gone
    sidecar,            \* annotations/<base>_annotations.json, per document
    coco,               \* exports/coco.json
    yolo,               \* exports/labels/<base>_page_<n>.txt, per page
    pressed,            \* pointer button 1 is held (B1-Motion needs it)
    gestures,           \* pointer-down events so far
    last,               \* the handler that ran last
    raised,             \* whether it ended in an uncaught exception
    downloaded_pdfs,    \* PDFDownloader.downloaded_pdfs
    download_folder,    \* the files in diverse_pdfs/, by filename index
    run_pos,            \* where PDFDownloader.run is
    fzoom,              \* self.zoom, as a double
    fbox,               \* the selected annotation's bbox_pdf[0] and [2]
    fmode,              \* "idle", "dragging" or "resizing"
    fhandle,            \* self.resize_handle
    foffset,            \* self.offset_x
    fprev,              \* fbox before the pointer move that just ran
    fsteps,             \* events of the x axis so far
    page_chars,         \* the chars of page.get_text("rawdict"), a page of any text
    query_rect,         \* the rect extract_text_precise is called with
    extracted           \* None, or <<the string it returned>>

vars == << pdf_files, current_pdf_index, current_pdf, current_page, annotations,
           start_x, start_y, temp_rect, selected_box, dragging, resizing,
           resize_handle, offset_x, offset_y, zoom, label_var, item, sidecar,
           coco, yolo, pressed, gestures, last, raised,
           downloaded_pdfs, download_folder, run_pos,
           fzoom, fbox, fmode, fhandle, foffset, fprev, fsteps,
           page_chars, query_rect, extracted >>

\* The annotater's variables; the downloader is a program of its own.
annotater_vars ==
    << pdf_files, current_pdf_index, current_pdf, current_page, annotations,
       start_x, start_y, temp_rect, selected_box, dragging, resizing,
       resize_handle, offset_x, offset_y, zoom, label_var, item, sidecar,
       coco, yolo, pressed, gestures, last, raised >>

downloader_vars == << downloaded_pdfs, download_folder, run_pos >>

\* One call of the text extractor on a page of any text.
extractor_vars == << page_chars, query_rect, extracted >>

\* The attributes and files a handler reads and writes, as one record.
St ==
    [ pdf_files |-> pdf_files, current_pdf_index |-> current_pdf_index,
      current_pdf |-> current_pdf, current_page |-> current_page,
      annotations |-> annotations, start_x |-> start_x, start_y |-> start_y,
      temp_rect |-> temp_rect, selected_box |-> selected_box,
      dragging |-> dragging, resizing |-> resizing,
      resize_handle |-> resize_handle, offset_x |-> offset_x,
      offset_y |-> offset_y, zoom |-> zoom, label_var |-> label_var,
      item |-> item, sidecar |-> sidecar, coco |-> coco, yolo |-> yolo,
      exc |-> FALSE ]

\* The state after a handler: its record, whatever it raised.
Becomes(t, name) ==
    /\ pdf_files' = t.pdf_files
    /\ current_pdf_index' = t.current_pdf_index
    /\ current_pdf' = t.current_pdf
    /\ current_page' = t.current_page
    /\ annotations' = t.annotations
    /\ start_x' = t.start_x
    /\ start_y' = t.start_y
    /\ temp_rect' = t.temp_rect
    /\ selected_box' = t.selected_box
    /\ dragging' = t.dragging
    /\ resizing' = t.resizing
    /\ resize_handle' = t.resize_handle
    /\ offset_x' = t.offset_x
    /\ offset_y' = t.offset_y
    /\ zoom' = t.zoom
    /\ label_var' = t.label_var
    /\ item' = t.item
    /\ sidecar' = t.sidecar
    /\ coco' = t.coco
    /\ yolo' = t.yolo
    /\ last' = name
    /\ raised' = t.exc
    /\ UNCHANGED downloader_vars
    /\ UNCHANGED extractor_vars
    /\ UNCHANGED << fzoom, fbox, fmode, fhandle, foffset, fprev, fsteps >>

Raise(s) == [s EXCEPT !.exc = TRUE]

(***************************************************************************)
(* self.selected_box is a reference to a dict.  It is None, or             *)
(* <<"ref", i>> while the dict is element i of self.annotations, or        *)
(* <<"obj", a>>: a dict with contents a that is in no list any more (the   *)
(* list it was in has been replaced by load_annotations).                  *)
(***************************************************************************)
SelObj(s) ==
    IF s.selected_box[1] = "ref" THEN s.annotations[s.selected_box[2]]
    ELSE s.selected_box[2]

\* self.selected_box["bbox_pdf"] = bb (a new list)
SetSelBBox(s, bb) ==
    IF s.selected_box[1] = "ref"
    THEN [s EXCEPT !.annotations[s.selected_box[2]].bbox_pdf = bb,
                   !.annotations[s.selected_box[2]].bbox_is_tuple = FALSE]
    ELSE [s EXCEPT !.selected_box =
            <<"obj", [s.selected_box[2] EXCEPT !.bbox_pdf = bb,
                                               !.bbox_is_tuple = FALSE]>>]

\* [coord * self.zoom for coord in bbox]
ToPixel(bb, z) == << RMul(bb[1], z), RMul(bb[2], z), RMul(bb[3], z), RMul(bb[4], z) >>
\* [x0 / self.zoom, y0 / self.zoom, x1 / self.zoom, y1 / self.zoom]
ToDoc(px, z) == << RDiv(px[1], z), RDiv(px[2], z), RDiv(px[3], z), RDiv(px[4], z) >>

\* ------------------------------------------------------------- rendering
(***************************************************************************)
(* render_page: self.doc[self.current_page] raises while no document is    *)
(* open; otherwise canvas.delete("all") removes every canvas item, the     *)
(* rectangle being drawn included, and the page is drawn again.            *)
(***************************************************************************)
render_page(s) ==
    IF s.current_pdf = NoDoc THEN Raise(s)
    ELSE [s EXCEPT !.item = None]

\* The 8 handle positions of a pixel rectangle, handle index 0..7 at 1..8.
handle_positions(px) ==
    LET x0 == px[1]  y0 == px[2]  x1 == px[3]  y1 == px[4]
        mx == RDiv(RAdd(x0, x1), R(2))
        my == RDiv(RAdd(y0, y1), R(2))
    IN  << <<x0, y0>>, <<x1, y0>>, <<x0, y1>>, <<x1, y1>>,
           <<mx, y0>>, <<mx, y1>>, <<x0, my>>, <<x1, my>> >>

\* ------------------------------------------------------ box edit machine
InHandle(px, h, ex, ey) ==
    LET hp == handle_positions(px)[h + 1]
    IN  /\ RLe(RAbs(RSub(R(ex), hp[1])), R(HANDLE_SIZE))
        /\ RLe(RAbs(RSub(R(ey), hp[2])), R(HANDLE_SIZE))

\* x0 <= event.x <= x1 and y0 <= event.y <= y1
InBody(px, ex, ey) ==
    /\ RLe(px[1], R(ex)) /\ RLe(R(ex), px[3])
    /\ RLe(px[2], R(ey)) /\ RLe(R(ey), px[4])

(***************************************************************************)
(* Tk keeps a rectangle item's coordinates with the lower corner first     *)
(* (ComputeRectOvalBbox swaps them), so canvas.coords(item) reads them     *)
(* back ordered whatever the direction of the drag.                        *)
(***************************************************************************)
CanvasRect(ax, ay, bx, by) ==
    << RMin2(ax, bx), RMin2(ay, by), RMax(ax, bx), RMax(ay, by) >>

\* A slip: the body tested before the handles.
on_mouse_down_body_first(s, ex, ey) ==
    LET px == ToPixel(SelObj(s).bbox_pdf, s.zoom)
        hit == {h \in 0..7 : InHandle(px, h, ex, ey)}
        first == CHOOSE h \in hit : \A g \in hit : h <= g
    IN  IF s.selected_box # None /\ InBody(px, ex, ey)
        THEN [s EXCEPT !.dragging = TRUE,
                       !.offset_x = RSub(R(ex), px[1]),
                       !.offset_y = RSub(R(ey), px[2])]
        ELSE IF s.selected_box # None /\ hit # {}
        THEN [s EXCEPT !.resizing = TRUE, !.resize_handle = first]
        ELSE [s EXCEPT !.start_x = R(ex), !.start_y = R(ey),
                       !.temp_rect = <<"rect">>,
                       !.item = CanvasRect(R(ex), R(ey), R(ex), R(ey))]

on_mouse_down(s, ex, ey) ==
    LET px == ToPixel(SelObj(s).bbox_pdf, s.zoom)
        hit == {h \in 0..7 : InHandle(px, h, ex, ey)}
        first == CHOOSE h \in hit : \A g \in hit : h <= g
    IN  IF s.selected_box # None /\ hit # {}
        THEN [s EXCEPT !.resizing = TRUE, !.resize_handle = first]
        ELSE IF s.selected_box # None /\ InBody(px, ex, ey)
        THEN [s EXCEPT !.dragging = TRUE,
                       !.offset_x = RSub(R(ex), px[1]),
                       !.offset_y = RSub(R(ey), px[2])]
        ELSE [s EXCEPT !.start_x = R(ex), !.start_y = R(ey),
                       !.temp_rect = <<"rect">>,
                       !.item = CanvasRect(R(ex), R(ey), R(ex), R(ey))]

\* A slip: the bottom-middle handle 5 taken for a handle of the bottom edge.
ResizedByGeometry(px, h, ex, ey) ==
    << IF h \in {0, 4, 6} THEN R(ex) ELSE px[1],
       IF h \in {0, 1, 4} THEN R(ey) ELSE px[2],
       IF h \in {1, 5, 7} THEN R(ex) ELSE px[3],
       IF h \in {2, 3, 5, 6, 7} THEN R(ey) ELSE px[4] >>

\* The pixel rectangle a resize with handle h to (ex, ey) gives.
Resized(px, h, ex, ey) ==
    << IF h \in {0, 4, 6} THEN R(ex) ELSE px[1],
       IF h \in {0, 1, 4, 5} THEN R(ey) ELSE px[2],
       IF h \in {1, 5, 7} THEN R(ex) ELSE px[3],
       IF h \in {2, 3, 6, 7} THEN R(ey) ELSE px[4] >>

\* A slip: the pointer taken for the top-left corner, the offset forgotten.
DraggedToPointer(bb, z, ox, oy, ex, ey) ==
    LET w == RMul(RSub(bb[3], bb[1]), z)
        h == RMul(RSub(bb[4], bb[2]), z)
    IN  << R(ex), R(ey), RAdd(R(ex), w), RAdd(R(ey), h) >>

\* The pixel rectangle a drag to (ex, ey) gives: the size kept, the corner moved.
Dragged(bb, z, ox, oy, ex, ey) ==
    LET w == RMul(RSub(bb[3], bb[1]), z)
        h == RMul(RSub(bb[4], bb[2]), z)
        new_x0 == RSub(R(ex), ox)
        new_y0 == RSub(R(ey), oy)
    IN  << new_x0, new_y0, RAdd(new_x0, w), RAdd(new_y0, h) >>

on_mouse_drag(s, ex, ey) ==
    IF s.resizing /\ s.selected_box # None THEN
        render_page(SetSelBBox(s,
            ToDoc(Resized(ToPixel(SelObj(s).bbox_pdf, s.zoom),
                          s.resize_handle, ex, ey), s.zoom)))
    ELSE IF s.dragging /\ s.selected_box # None THEN
        render_page(SetSelBBox(s,
            ToDoc(Dragged(SelObj(s).bbox_pdf, s.zoom, s.offset_x, s.offset_y,
                          ex, ey), s.zoom)))
    ELSE IF s.temp_rect # None /\ s.item # None THEN
        \* canvas.coords(temp_rect, start_x, start_y, event.x, event.y)
        [s EXCEPT !.item = CanvasRect(s.start_x, s.start_y, R(ex), R(ey))]
    ELSE s  \* no rectangle pending, or its item is gone: nothing to move

\* A slip: the threshold taken as "at least" instead of "more than".
BigEnoughAtLeast(c) ==
    /\ RLe(R(MIN_BOX), RAbs(RSub(c[3], c[1])))
    /\ RLe(R(MIN_BOX), RAbs(RSub(c[4], c[2])))

\* abs(x1 - x0) > 10 and abs(y1 - y0) > 10
BigEnough(c) ==
    /\ RLt(R(MIN_BOX), RAbs(RSub(c[3], c[1])))
    /\ RLt(R(MIN_BOX), RAbs(RSub(c[4], c[2])))

NewAnnotation(s, c) ==
    [page |-> s.current_page, bbox_pdf |-> ToDoc(c, s.zoom),
     bbox_is_tuple |-> FALSE, label |-> s.label_var, text |-> << >>]

on_mouse_up(s) ==
    IF s.dragging THEN [s EXCEPT !.dragging = FALSE]
    ELSE IF s.resizing THEN [s EXCEPT !.resizing = FALSE, !.resize_handle = NoHandle]
    ELSE IF s.temp_rect # None THEN
        IF s.item = None
        THEN Raise(s)  \* x0, y0, x1, y1 = []: ValueError, nothing was changed
        ELSE render_page(
                [s EXCEPT !.annotations =
                              IF BigEnough(s.item)
                              THEN Append(@, NewAnnotation(s, s.item)) ELSE @,
                          !.item = None,
                          !.temp_rect = None])
    ELSE s

\* The annotations a right-click at (ex, ey) hits, in Store order.
Hits(s, ex, ey) ==
    {i \in 1..Len(s.annotations) :
        /\ InBody(ToPixel(s.annotations[i].bbox_pdf, s.zoom), ex, ey)
        /\ s.annotations[i].page = s.current_page}

\* A slip: the last match taken, the loop not left at the first.
select_box_last_match(s, ex, ey) ==
    IF Hits(s, ex, ey) = {} THEN s
    ELSE render_page([s EXCEPT !.selected_box =
            <<"ref", CHOOSE i \in Hits(s, ex, ey) : \A j \in Hits(s, ex, ey) : j <= i>>])

select_box(s, ex, ey) ==
    IF Hits(s, ex, ey) = {} THEN s
    ELSE render_page([s EXCEPT !.selected_box =
            <<"ref", CHOOSE i \in Hits(s, ex, ey) : \A j \in Hits(s, ex, ey) : i <= j>>])

\* list.remove(x): the first element equal to x goes; ValueError if none is.
RemoveAt(seq, i) == SubSeq(seq, 1, i - 1) \o SubSeq(seq, i + 1, Len(seq))

delete_selected(s) ==
    LET eq == {i \in 1..Len(s.annotations) : s.annotations[i] = SelObj(s)}
    IN  IF s.selected_box = None THEN s
        ELSE IF eq = {} THEN Raise(s)
        ELSE render_page(
                [s EXCEPT !.annotations =
                              RemoveAt(@, CHOOSE i \in eq : \A j \in eq : i <= j),
                          !.selected_box = None])

prev_page(s) ==
    IF s.current_page > 0
    THEN render_page([s EXCEPT !.current_page = @ - 1])
    ELSE s

\* len(self.doc) raises while self.doc is None
next_page(s) ==
    IF s.current_pdf = NoDoc THEN Raise(s)
    ELSE IF s.current_page < NumPages(s.current_pdf) - 1
    THEN render_page([s EXCEPT !.current_page = @ + 1])
    ELSE s

\* A slip: the minimum forgotten.
change_zoom_unclamped(s, delta) ==
    render_page([s EXCEPT !.zoom = RAdd(@, delta)])

change_zoom(s, delta) ==
    render_page([s EXCEPT !.zoom = RMax(MIN_ZOOM, RAdd(@, delta))])

\* --------------------------------------------------------- text extractor
\* round(y, 1) in tenths: the nearest tenth, a tie going to the even one.
Round1(y) ==
    LET n == 10 * y[1]
        d == y[2]
        q == n \div d
        r == n - q * d
    IN  IF 2 * r < d THEN q
        ELSE IF 2 * r > d THEN q + 1
        ELSE IF q % 2 = 0 THEN q ELSE q + 1

\* The sort key (round(c["y"], 1), c["x"]) of a is below that of b.
KeyLess(a, b) ==
    \/ Round1(a.y) < Round1(b.y)
    \/ Round1(a.y) = Round1(b.y) /\ RLt(a.x, b.x)

\* list.sort(key=...) is stable: c goes after every element not above it.
RECURSIVE InsertSorted(_, _)
InsertSorted(c, sorted) ==
    IF sorted = << >> THEN <<c>>
    ELSE IF KeyLess(c, Head(sorted)) THEN <<c>> \o sorted
    ELSE <<Head(sorted)>> \o InsertSorted(c, Tail(sorted))

RECURSIVE SortChars(_)
SortChars(cs) ==
    IF cs = << >> THEN << >>
    ELSE InsertSorted(cs[Len(cs)], SortChars(SubSeq(cs, 1, Len(cs) - 1)))

\* Drops a character equal to the last kept one and within 1.5 of it on both axes.
RECURSIVE Dedup(_, _, _)
Dedup(cs, kept, lastc) ==
    IF cs = << >> THEN kept
    ELSE LET c == Head(cs)
             dup == /\ lastc # None
                    /\ lastc[1].char = c.char
                    /\ RLt(RAbs(RSub(c.x, lastc[1].x)), <<3, 2>>)
                    /\ RLt(RAbs(RSub(c.y, lastc[1].y)), <<3, 2>>)
         IN  IF dup THEN Dedup(Tail(cs), kept, lastc)
             ELSE Dedup(Tail(cs), Append(kept, c), <<c>>)

\* Groups into lines (of the characters' dicts): a new line when
\* abs(c["y"] - current_y) > 3.
RECURSIVE GroupLines(_, _, _, _)
GroupLines(cs, lines, current_line, current_y) ==
    IF cs = << >>
    THEN IF current_line # << >> THEN Append(lines, current_line) ELSE lines
    ELSE LET c == Head(cs)
         IN  IF RLt(R(3), RAbs(RSub(c.y, current_y)))
             THEN GroupLines(Tail(cs), Append(lines, current_line), <<c>>, c.y)
             ELSE GroupLines(Tail(cs), lines, Append(current_line, c), current_y)

\* "".join(ch["char"] for ch in current_line), for every line
LineStrings(lines) ==
    [l \in 1..Len(lines) |-> [k \in 1..Len(lines[l]) |-> lines[l][k].char]]

\* "\n".join(lines)
RECURSIVE JoinLines(_)
JoinLines(lines) ==
    IF lines = << >> THEN << >>
    ELSE IF Len(lines) = 1 THEN lines[1]
    ELSE lines[1] \o <<"\n">> \o JoinLines(Tail(lines))

Whitespace == {" ", "\n", "\t"}

\* str.strip()
RECURSIVE LStrip(_)
LStrip(str) ==
    IF str # << >> /\ Head(str) \in Whitespace THEN LStrip(Tail(str)) ELSE str

RECURSIVE RStrip(_)
RStrip(str) ==
    IF str # << >> /\ str[Len(str)] \in Whitespace
    THEN RStrip(SubSeq(str, 1, Len(str) - 1)) ELSE str

Strip(str) == RStrip(LStrip(str))

\* The characters of all (a page's, in layout order) that overlap rect strictly.
Overlapping(all, rect) ==
    LET F[i \in 0..Len(all)] ==
            IF i = 0 THEN << >>
            ELSE IF /\ RLt(rect[1], all[i].bbox[3]) /\ RLt(all[i].bbox[1], rect[3])
                    /\ RLt(rect[2], all[i].bbox[4]) /\ RLt(all[i].bbox[2], rect[4])
                 THEN Append(F[i - 1], [char |-> all[i].c, x |-> all[i].bbox[1],
                                        y |-> all[i].bbox[2]])
                 ELSE F[i - 1]
    IN  F[Len(all)]

OverlappingChars(d, p, rect) == Overlapping(PageChars(d, p), rect)

\* The lines (of dicts) the chars, not empty, are grouped into.
TextLines(chars) ==
    LET filtered == Dedup(SortChars(chars), << >>, None)
    IN  GroupLines(filtered, << >>, << >>, filtered[1].y)

\* The text of the chars collected from a page.
TextOf(chars) ==
    IF chars = << >> THEN << >>
    ELSE Strip(JoinLines(LineStrings(TextLines(chars))))

extract_text_precise(d, p, rect) == TextOf(OverlappingChars(d, p, rect))

\* ---------------------------------------------------------------- sidecar
(***************************************************************************)
(* A sidecar file is None (no file), <<"json", text>> or <<"garbage", ..>>  *)
(* (a file json.load rejects).  The JSON text of the Store is an array of   *)
(* objects, an object the sequence of its <<key, value>> members in the     *)
(* dict's order; a tuple and a list are both written as an array, and an    *)
(* array is read back as a list.                                            *)
(***************************************************************************)
JsonObject(a) ==
    << <<"page", a.page>>, <<"bbox_pdf", a.bbox_pdf>>,
       <<"label", a.label>>, <<"text", a.text>> >>

\* json.dump(self.annotations, f, indent=4)
JsonDump(anns) == [i \in 1..Len(anns) |-> JsonObject(anns[i])]

Member(obj, key) == obj[CHOOSE i \in 1..Len(obj) : obj[i][1] = key][2]

JsonDict(obj) ==
    [page |-> Member(obj, "page"), bbox_pdf |-> Member(obj, "bbox_pdf"),
     bbox_is_tuple |-> FALSE,
     label |-> Member(obj, "label"), text |-> Member(obj, "text")]

\* A slip: the array read back to front.
JsonLoadBackwards(text) ==
    [i \in 1..Len(text) |-> JsonDict(text[Len(text) + 1 - i])]

\* json.load(f)
JsonLoad(text) == [i \in 1..Len(text) |-> JsonDict(text[i])]

\* The Store with every text field filled in from its page (save_annotations' loop).
WithText(d, anns) ==
    [i \in 1..Len(anns) |->
        IF anns[i].page < NumPages(d)
        THEN [anns[i] EXCEPT !.text = extract_text_precise(d, anns[i].page,
                                                           anns[i].bbox_pdf)]
        ELSE anns[i]]

\* A slip: the sidecar opened to append, what it held staying in front.
save_annotations_appending(s) ==
    IF s.current_pdf = NoDoc THEN s
    ELSE LET anns == WithText(s.current_pdf, s.annotations)
             f == s.sidecar[s.current_pdf]
             held == IF f = None THEN << >> ELSE f[2]
         IN  [s EXCEPT !.annotations = anns,
                       !.sidecar[s.current_pdf] =
                           <<"json", held \o JsonDump(anns)>>]

save_annotations(s) ==
    IF s.current_pdf = NoDoc THEN s
    ELSE LET anns == WithText(s.current_pdf, s.annotations)
         IN  [s EXCEPT !.annotations = anns,
                       !.sidecar[s.current_pdf] = <<"json", JsonDump(anns)>>]

\* self.annotations is bound to a new list: a selected dict stays behind.
Rebind(s, anns) ==
    [s EXCEPT !.annotations = anns,
              !.selected_box = IF s.selected_box # None /\ s.selected_box[1] = "ref"
                               THEN <<"obj", SelObj(s)>> ELSE @]

load_annotations(s) ==
    LET f == s.sidecar[s.current_pdf]
    IN  IF f = None THEN Rebind(s, << >>)
        ELSE IF f[1] = "json" THEN Rebind(s, JsonLoad(f[2]))
        ELSE Raise(s)  \* json.JSONDecodeError

\* ------------------------------------------------------------- documents
open_pdf(s, pdf_path) ==
    LET opened == load_annotations([s EXCEPT !.current_pdf = pdf_path,
                                             !.current_page = 0])
    IN  IF opened.exc THEN opened ELSE render_page(opened)

\* sorted(...) of a set of file names
RECURSIVE Sorted(_)
Sorted(S) ==
    IF S = {} THEN << >>
    ELSE LET m == CHOOSE x \in S : \A y \in S : x <= y
         IN  <<m>> \o Sorted(S \ {m})

load_folder(s, folder) ==
    LET files == Sorted({f \in ListDir(folder) : IsPdfName(f)})
    IN  IF folder = NoFolder THEN s
        ELSE IF files = << >> THEN [s EXCEPT !.pdf_files = files]
        ELSE open_pdf([s EXCEPT !.pdf_files = files, !.current_pdf_index = 0],
                      files[1])

\* self.pdf_files[self.current_pdf_index]: IndexError past the end of the list
OpenCurrent(s) ==
    IF s.current_pdf_index + 1 > Len(s.pdf_files) THEN Raise(s)
    ELSE open_pdf(s, s.pdf_files[s.current_pdf_index + 1])

prev_pdf(s) ==
    IF s.current_pdf_index > 0
    THEN OpenCurrent([save_annotations(s) EXCEPT !.current_pdf_index = @ - 1])
    ELSE s

next_pdf(s) ==
    IF s.current_pdf_index < Len(s.pdf_files) - 1
    THEN OpenCurrent([save_annotations(s) EXCEPT !.current_pdf_index = @ + 1])
    ELSE s

\* ------------------------------------------------------- heading detector
\* A slip: the thresholds taken as "at least".
HeadingLabelAtLeast(size) ==
    IF RLe(R(18), size) THEN "TITLE"
    ELSE IF RLe(R(14), size) THEN "H1"
    ELSE IF RLe(R(12), size) THEN "H2"
    ELSE "BODY"

HeadingLabel(size) ==
    IF RLt(R(18), size) THEN "TITLE"
    ELSE IF RLt(R(14), size) THEN "H1"
    ELSE IF RLt(R(12), size) THEN "H2"
    ELSE "BODY"

\* The annotations auto_detect_headings makes of the spans of page p of d.
Detected(d, p) ==
    LET spans == PageSpans(d, p)
        F[i \in 0..Len(spans)] ==
            IF i = 0 THEN << >>
            ELSE IF Len(Strip(spans[i].text)) > 2
                 THEN Append(F[i - 1],
                        [page |-> p, bbox_pdf |-> spans[i].bbox,
                         bbox_is_tuple |-> TRUE,
                         label |-> HeadingLabel(spans[i].size),
                         text |-> Strip(spans[i].text)])
                 ELSE F[i - 1]
    IN  F[Len(spans)]

\* A slip: the detected annotations put in the Store's place.
auto_detect_headings_replacing(s) ==
    IF s.current_pdf = NoDoc THEN s
    ELSE render_page([s EXCEPT !.annotations =
                                   Detected(s.current_pdf, s.current_page)])

auto_detect_headings(s) ==
    IF s.current_pdf = NoDoc THEN s
    ELSE render_page([s EXCEPT !.annotations =
                                   @ \o Detected(s.current_pdf, s.current_page)])

\* -------------------------------------------------------------- exporters
\* The sidecar of d as an exporter reads it: [] when there is no file.
Persisted(s, d) ==
    IF s.sidecar[d] = None THEN << >> ELSE JsonLoad(s.sidecar[d][2])

\* Some document of the folder has a sidecar json.load rejects.
GarbageSidecars(s) ==
    {i \in 1..Len(s.pdf_files) :
        /\ s.sidecar[s.pdf_files[i]] # None
        /\ s.sidecar[s.pdf_files[i]][1] # "json"}

\* f"{base_name}_page_{page_idx+1}.jpg", as <<document, page number>>
ImgName(d, page_idx) == <<d, page_idx + 1>>

\* coco["categories"]: one entry per item of LABEL_MAP
Categories ==
    [i \in 1..Len(LABEL_OPTIONS) |->
        [id |-> LABEL_MAP(LABEL_OPTIONS[i]), name |-> LABEL_OPTIONS[i]]]

\* A slip: the corners written where COCO wants a corner, a width and a height.
CocoRecordCorners(ann, ann_id, img_id) ==
    [id |-> ann_id, image_id |-> img_id, bbox |-> ann.bbox_pdf,
     category_id |-> LABEL_MAP(ann.label), iscrowd |-> 0]

CocoRecord(ann, ann_id, img_id) ==
    LET x0 == ann.bbox_pdf[1]  y0 == ann.bbox_pdf[2]
        x1 == ann.bbox_pdf[3]  y1 == ann.bbox_pdf[4]
    IN  [id |-> ann_id, image_id |-> img_id,
         bbox |-> <<x0, y0, RSub(x1, x0), RSub(y1, y0)>>,
         category_id |-> LABEL_MAP(ann.label), iscrowd |-> 0]

\* A slip: ann_id not stepped inside a page.
RECURSIVE CocoPageOneId(_, _, _, _, _)
CocoPageOneId(anns, page_idx, img_id, ann_id, out) ==
    IF anns = << >> THEN out
    ELSE IF Head(anns).page = page_idx
    THEN CocoPageOneId(Tail(anns), page_idx, img_id, ann_id,
                       Append(out, CocoRecord(Head(anns), ann_id, img_id)))
    ELSE CocoPageOneId(Tail(anns), page_idx, img_id, ann_id, out)

\* The inner loop of export_coco over the sidecar of one page.
RECURSIVE CocoPage(_, _, _, _, _)
CocoPage(anns, page_idx, img_id, ann_id, out) ==
    IF anns = << >> THEN out
    ELSE IF Head(anns).page = page_idx
    THEN CocoPage(Tail(anns), page_idx, img_id, ann_id + 1,
                  Append(out, CocoRecord(Head(anns), ann_id, img_id)))
    ELSE CocoPage(Tail(anns), page_idx, img_id, ann_id, out)

\* The loops of export_coco over the documents (from the i-th) and their pages.
RECURSIVE CocoWalk(_, _, _, _, _, _)
CocoWalk(s, i, page_idx, img_id, ann_id, out) ==
    IF i > Len(s.pdf_files) THEN out
    ELSE IF page_idx >= NumPages(s.pdf_files[i])
    THEN CocoWalk(s, i + 1, 0, img_id, ann_id, out)
    ELSE LET d == s.pdf_files[i]
             recs == CocoPage(Persisted(s, d), page_idx, img_id, ann_id, << >>)
         IN  CocoWalk(s, i, page_idx + 1, img_id + 1, ann_id + Len(recs),
                [out EXCEPT
                    !.images = Append(@, [id |-> img_id,
                                          file_name |-> ImgName(d, page_idx),
                                          width |-> PixWidth(d, page_idx),
                                          height |-> PixHeight(d, page_idx)]),
                    !.annotations = @ \o recs])

\* coco.json is written last: a sidecar that does not parse leaves it as it was.
export_coco(s) ==
    IF GarbageSidecars(s) # {} THEN Raise(s)
    ELSE [s EXCEPT !.coco =
            << CocoWalk(s, 1, 0, 1, 1,
                        [images |-> << >>, annotations |-> << >>,
                         categories |-> Categories]) >>]

\* The digits of r/d after the point, k of them, as a number (r < d).
RECURSIVE Digits(_, _, _, _)
Digits(r, d, k, acc) ==
    IF k = 0 THEN <<acc, r>>
    ELSE Digits((10 * r) % d, d, k - 1, 10 * acc + (10 * r) \div d)

\* f"{v:.6f}": the sign and the millionths, rounded to nearest (a tie to even).
Fmt6(v) ==
    LET n == IAbs(v[1])
        d == v[2]
        dg == Digits(n % d, d, 6, 0)
        micro == (n \div d) * 1000000 + dg[1]
        up == \/ 2 * dg[2] > d
              \/ 2 * dg[2] = d /\ micro % 2 = 1
    IN  [neg |-> v[1] < 0, micro |-> IF up THEN micro + 1 ELSE micro]

\* A slip: the top-left corner written where YOLO wants the centre.
YoloLineCorner(ann, width, height) ==
    LET x0 == ann.bbox_pdf[1]  y0 == ann.bbox_pdf[2]
        x1 == ann.bbox_pdf[3]  y1 == ann.bbox_pdf[4]
    IN  << LABEL_MAP(ann.label) - 1,
           Fmt6(RDiv(x0, R(width))), Fmt6(RDiv(y0, R(height))),
           Fmt6(RDiv(RSub(x1, x0), R(width))),
           Fmt6(RDiv(RSub(y1, y0), R(height))) >>

YoloLine(ann, width, height) ==
    LET x0 == ann.bbox_pdf[1]  y0 == ann.bbox_pdf[2]
        x1 == ann.bbox_pdf[3]  y1 == ann.bbox_pdf[4]
        w == RSub(x1, x0)
        h == RSub(y1, y0)
        xc == RAdd(x0, RDiv(w, R(2)))
        yc == RAdd(y0, RDiv(h, R(2)))
    IN  << LABEL_MAP(ann.label) - 1,
           Fmt6(RDiv(xc, R(width))), Fmt6(RDiv(yc, R(height))),
           Fmt6(RDiv(w, R(width))), Fmt6(RDiv(h, R(height))) >>

\* The label file of one page: a line per annotation of the sidecar on it.
RECURSIVE YoloPage(_, _, _, _)
YoloPage(anns, d, page_idx, out) ==
    IF anns = << >> THEN out
    ELSE IF Head(anns).page = page_idx
    THEN YoloPage(Tail(anns), d, page_idx,
                  Append(out, YoloLine(Head(anns), PixWidth(d, page_idx),
                                       PixHeight(d, page_idx))))
    ELSE YoloPage(Tail(anns), d, page_idx, out)

\* The loop of export_yolo over the documents: it stops at a sidecar that does
\* not parse, the label files written before it staying.
RECURSIVE YoloWalk(_, _, _)
YoloWalk(s, i, files) ==
    IF i > Len(s.pdf_files) THEN [s EXCEPT !.yolo = files]
    ELSE LET d == s.pdf_files[i]
         IN  IF s.sidecar[d] # None /\ s.sidecar[d][1] # "json"
             THEN Raise([s EXCEPT !.yolo = files])
             ELSE YoloWalk(s, i + 1,
                    [k \in DOMAIN files |->
                        IF k[1] = d
                        THEN << YoloPage(Persisted(s, d), d, k[2] - 1, << >>) >>
                        ELSE files[k]])

export_yolo(s) == YoloWalk(s, 1, s.yolo)

\* Every label file export_yolo can write, by image name.
LabelFiles == UNION {{ImgName(d, p) : p \in 0..(NumPages(d) - 1)} : d \in Docs}

\* ------------------------------------------------------------ the session
(***************************************************************************)
(* The annotations folder as an earlier session left it: no sidecar for    *)
(* document 1; for document 2 one with two boxes on its only page and,     *)
(* between them, one on a page the document does not have.                 *)
(***************************************************************************)
PriorAnn(page, x0, y0, x1, y1, label) ==
    [page |-> page, bbox_pdf |-> <<R(x0), R(y0), R(x1), R(y1)>>,
     bbox_is_tuple |-> FALSE, label |-> label, text |-> << >>]

PriorStore ==
    << PriorAnn(0, 0, 0, 20, 20, "H3"),
       PriorAnn(1, 0, 0, 20, 20, "H4"),
       PriorAnn(0, 20, 0, 40, 20, "BODY") >>

PriorSidecar == [d \in Docs |-> IF d = 2 THEN <<"json", JsonDump(PriorStore)>> ELSE None]

\* Pointer positions (event.x, event.y) and the labels picked in the combobox.
Points == {0, 10, 30} \X {0, 10, 30}
ClickPoints == {<<10, 10>>, <<30, 10>>, <<40, 10>>}
LabelChoices == {"H3"}

InitWith(files) ==
    /\ pdf_files = << >>
    /\ current_pdf_index = 0
    /\ current_pdf = NoDoc
    /\ current_page = 0
    /\ annotations = << >>
    /\ start_x = None
    /\ start_y = None
    /\ temp_rect = None
    /\ selected_box = None
    /\ dragging = FALSE
    /\ resizing = FALSE
    /\ resize_handle = NoHandle
    /\ offset_x = None
    /\ offset_y = None
    /\ zoom = INIT_ZOOM
    /\ label_var = "TITLE"
    /\ item = None
    /\ sidecar = files
    /\ coco = None
    /\ yolo = [k \in LabelFiles |-> None]
    /\ pressed = FALSE
    /\ gestures = 0
    /\ last = "__init__"
    /\ raised = FALSE
    /\ downloaded_pdfs = << >>
    /\ download_folder = << >>
    /\ run_pos = <<"categories", 0>>
    /\ fzoom = FOf(INIT_ZOOM)
    /\ fbox = None
    /\ fmode = "idle"
    /\ fhandle = NoHandle
    /\ foffset = None
    /\ fprev = None
    /\ fsteps = 0
    /\ page_chars = << >>
    /\ query_rect = None
    /\ extracted = None

Init == InitWith(PriorSidecar)

(***************************************************************************)
(* The input source.  Button 1 goes down on the canvas, moves while held   *)
(* (B1-Motion) and comes up.  While it is held the pointer is the canvas's: *)
(* the sidebar's buttons and the combobox cannot be clicked, but the       *)
(* Delete key and button 3 still reach the canvas.                         *)
(***************************************************************************)
MouseDown ==
    /\ ~pressed
    /\ gestures < MaxGestures
    /\ \E e \in Points : Becomes(on_mouse_down(St, e[1], e[2]), "on_mouse_down")
    /\ pressed' = TRUE
    /\ gestures' = gestures + 1

MouseDrag ==
    /\ pressed
    /\ \E e \in Points : Becomes(on_mouse_drag(St, e[1], e[2]), "on_mouse_drag")
    /\ UNCHANGED <<pressed, gestures>>

MouseUp ==
    /\ pressed
    /\ Len(on_mouse_up(St).annotations) <= MaxAnns
    /\ Becomes(on_mouse_up(St), "on_mouse_up")
    /\ pressed' = FALSE
    /\ UNCHANGED gestures

SelectBox ==
    /\ \E e \in ClickPoints : Becomes(select_box(St, e[1], e[2]), "select_box")
    /\ UNCHANGED <<pressed, gestures>>

DeleteSelected ==
    /\ Becomes(delete_selected(St), "delete_selected")
    /\ UNCHANGED <<pressed, gestures>>

PrevPage ==
    /\ ~pressed
    /\ Becomes(prev_page(St), "prev_page")
    /\ UNCHANGED <<pressed, gestures>>

NextPage ==
    /\ ~pressed
    /\ Becomes(next_page(St), "next_page")
    /\ UNCHANGED <<pressed, gestures>>

ChangeZoom ==
    /\ ~pressed
    /\ \E delta \in ZoomDeltas :
          /\ RLe(RAdd(zoom, delta), <<MaxZoomTenths, 10>>)
          /\ Becomes(change_zoom(St, delta), "change_zoom")
    /\ UNCHANGED <<pressed, gestures>>

\* The user picks a label: label_var changes, no handler runs.
ChooseLabel ==
    /\ ~pressed
    /\ \E l \in LabelChoices : label_var' = l
    /\ UNCHANGED << pdf_files, current_pdf_index, current_pdf, current_page,
                    annotations, start_x, start_y, temp_rect, selected_box,
                    dragging, resizing, resize_handle, offset_x, offset_y, zoom,
                    item, sidecar, coco, yolo, pressed, gestures, last, raised >>
    /\ UNCHANGED downloader_vars
    /\ UNCHANGED extractor_vars
    /\ UNCHANGED << fzoom, fbox, fmode, fhandle, foffset, fprev, fsteps >>

LoadFolder ==
    /\ ~pressed
    /\ \E folder \in Folders \cup {NoFolder} :
          Becomes(load_folder(St, folder), "load_folder")
    /\ UNCHANGED <<pressed, gestures>>

PrevPdf ==
    /\ ~pressed
    /\ Becomes(prev_pdf(St), "prev_pdf")
    /\ UNCHANGED <<pressed, gestures>>

NextPdf ==
    /\ ~pressed
    /\ Becomes(next_pdf(St), "next_pdf")
    /\ UNCHANGED <<pressed, gestures>>

SaveAnnotations ==
    /\ ~pressed
    /\ Becomes(save_annotations(St), "save_annotations")
    /\ UNCHANGED <<pressed, gestures>>

AutoDetect ==
    /\ ~pressed
    /\ Len(auto_detect_headings(St).annotations) <= MaxAnns
    /\ Becomes(auto_detect_headings(St), "auto_detect_headings")
    /\ UNCHANGED <<pressed, gestures>>

ExportCoco ==
    /\ ~pressed
    /\ Becomes(export_coco(St), "export_coco")
    /\ UNCHANGED <<pressed, gestures>>

ExportYolo ==
    /\ ~pressed
    /\ Becomes(export_yolo(St), "export_yolo")
    /\ UNCHANGED <<pressed, gestures>>

Next ==
    \/ MouseDown \/ MouseDrag \/ MouseUp \/ SelectBox \/ DeleteSelected
    \/ PrevPage \/ NextPage \/ ChangeZoom \/ ChooseLabel
    \/ LoadFolder \/ PrevPdf \/ NextPdf \/ SaveAnnotations \/ AutoDetect
    \/ ExportCoco \/ ExportYolo

Spec == Init /\ [][Next]_vars

\* The box edit state machine on the first document of the folder, at the
\* zoom the session starts with.
NextEdit ==
    \/ MouseDown \/ MouseDrag \/ MouseUp \/ SelectBox \/ DeleteSelected
    \/ PrevPage \/ NextPage \/ ChooseLabel \/ LoadFolder

SpecEdit == Init /\ [][NextEdit]_vars

\* The Store and its sidecars: detection, selection, deletion, save, navigation.
NextStore ==
    \/ LoadFolder \/ PrevPdf \/ NextPdf \/ SaveAnnotations \/ AutoDetect
    \/ SelectBox \/ DeleteSelected \/ PrevPage \/ NextPage

SpecStore == Init /\ [][NextStore]_vars

\* The exporters over the sidecars the Store's operations leave.
NextCoco ==
    \/ LoadFolder \/ PrevPdf \/ NextPdf \/ SaveAnnotations \/ AutoDetect
    \/ SelectBox \/ DeleteSelected \/ PrevPage \/ NextPage
    \/ ExportCoco

SpecCoco == Init /\ [][NextCoco]_vars

NextYolo ==
    \/ LoadFolder \/ PrevPdf \/ NextPdf \/ SaveAnnotations \/ AutoDetect
    \/ SelectBox \/ DeleteSelected \/ PrevPage \/ NextPage
    \/ ExportYolo

SpecYolo == Init /\ [][NextYolo]_vars

\* The zoom buttons over the sidecar of an earlier session, with a selection.
NextZoom == LoadFolder \/ NextPdf \/ SelectBox \/ DeleteSelected \/ ChangeZoom

SpecZoom == Init /\ [][NextZoom]_vars

\* The same commands over an annotations folder in which the sidecar of
\* document 2 is not JSON (and document 1 has the sidecar of an earlier session).
BrokenSidecar ==
    [d \in Docs |-> IF d = 1 THEN <<"json", JsonDump(PriorStore)>>
                               ELSE <<"garbage">>]

InitBroken == InitWith(BrokenSidecar)

NextBroken ==
    \/ LoadFolder \/ PrevPdf \/ NextPdf \/ SaveAnnotations
    \/ SelectBox \/ DeleteSelected \/ ExportCoco \/ ExportYolo

SpecBroken == InitBroken /\ [][NextBroken]_vars

\* Boxes drawn and reshaped on the first page, then saved and exported.
NextDrawn ==
    \/ LoadFolder \/ MouseDown \/ MouseDrag \/ MouseUp \/ SelectBox
    \/ SaveAnnotations \/ ExportYolo

SpecDrawn == Init /\ [][NextDrawn]_vars

\* ============================================================ downloader
(***************************************************************************)
(* src/pdf-downloader.py.  PDFDownloader.run asks the Internet Archive for *)
(* each document type in turn, downloads the first search result that      *)
(* download_pdf accepts, and fills the remaining slots from the backup      *)
(* queries.  What the archive answers is the environment's choice.         *)
(***************************************************************************)
target_count == 15
max_pages == 20
MinFileSize == 5000
NumDocumentTypes == 15
NumBackupQueries == 10

\* At most this many search results are looked at per query, and the
\* archive stops answering once this many files have been kept.
MaxResults == 2
MaxDownloads == 3

(***************************************************************************)
(* A search result.  kind is "noid" (no identifier), "nopdf"               *)
(* (get_pdf_download_url finds no PDF), "fails" (requests.get or the write  *)
(* raises) or "file": size bytes arrive; the file has `pages` pages, and   *)
(* PdfReader can read them or raises (encrypted, damaged or truncated      *)
(* files).                                                                 *)
(***************************************************************************)
Result(kind, size, pages, readable) ==
    [kind |-> kind, size |-> size, pages |-> pages, readable |-> readable]

Results ==
    {Result(k, 0, 0, FALSE) : k \in {"noid", "nopdf", "fails"}}
    \cup {Result("file", sz, pg, rd) :
            sz \in {MinFileSize - 1, MinFileSize},
            pg \in {max_pages, max_pages + 1},
            rd \in BOOLEAN}

ResultLists == UNION {[1..n -> Results] : n \in 0..MaxResults}

\* open(filepath, 'wb') and os.remove(filepath) in the download folder
WriteFile(folder, filename, file) ==
    [f \in DOMAIN folder \cup {filename} |->
        IF f = filename THEN file ELSE folder[f]]

RemoveFile(folder, filename) ==
    [f \in DOMAIN folder \ {filename} |-> folder[f]]

\* (is_valid_length, page_count)
check_pdf_pages(file) ==
    IF file.readable THEN <<file.pages <= max_pages, file.pages>>
    ELSE <<TRUE, 0>>

\* The value returned and the folder afterwards.
download_pdf(folder, filename, result) ==
    IF result.kind = "fails"
    THEN [ok |-> FALSE, folder |-> RemoveFile(folder, filename)]
    ELSE LET written == WriteFile(folder, filename, result) IN
         IF result.size < MinFileSize
         THEN [ok |-> FALSE, folder |-> RemoveFile(written, filename)]
         ELSE IF ~check_pdf_pages(result)[1]
         THEN [ok |-> FALSE, folder |-> RemoveFile(written, filename)]
         ELSE [ok |-> TRUE, folder |-> written]

\* create_safe_filename: the index makes the name; the title only adds to it.
create_safe_filename(index) == index

Dl == [downloaded_pdfs |-> downloaded_pdfs, download_folder |-> download_folder]

\* The record of a kept file; doc_type is the dict of document_types, or
\* "Mixed Content" with the backup query.
Downloaded(filename, doc_type) ==
    [filename |-> filename, document_type |-> doc_type.name,
     search_query |-> doc_type.query]

\* A slip: the loop goes on after a file was recorded.
RECURSIVE download_from_category_no_return(_, _, _)
download_from_category_no_return(s, results, doc_type) ==
    IF results = << >> THEN s
    ELSE LET r == Head(results) IN
         IF r.kind \in {"noid", "nopdf"}
         THEN download_from_category_no_return(s, Tail(results), doc_type)
         ELSE LET filename == create_safe_filename(Len(s.downloaded_pdfs) + 1)
                  got == download_pdf(s.download_folder, filename, r)
              IN  download_from_category_no_return(
                      [downloaded_pdfs |->
                           IF got.ok
                           THEN Append(s.downloaded_pdfs,
                                       Downloaded(filename, doc_type))
                           ELSE s.downloaded_pdfs,
                       download_folder |-> got.folder],
                      Tail(results), doc_type)

\* The loop over the results of one search: the first result that
\* download_pdf accepts is recorded and ends the loop.
RECURSIVE download_from_category(_, _, _)
download_from_category(s, results, doc_type) ==
    IF results = << >> THEN s
    ELSE LET r == Head(results) IN
         IF r.kind \in {"noid", "nopdf"}
         THEN download_from_category(s, Tail(results), doc_type)
         ELSE LET filename == create_safe_filename(Len(s.downloaded_pdfs) + 1)
                  got == download_pdf(s.download_folder, filename, r)
              IN  IF got.ok
                  THEN [downloaded_pdfs |->
                            Append(s.downloaded_pdfs,
                                   Downloaded(filename, doc_type)),
                        download_folder |-> got.folder]
                  ELSE download_from_category(
                           [s EXCEPT !.download_folder = got.folder],
                           Tail(results), doc_type)

\* What search_internet_archive returns now.
Answers == IF Len(downloaded_pdfs) < MaxDownloads THEN ResultLists ELSE {<< >>}

DlBecomes(t, pos) ==
    /\ downloaded_pdfs' = t.downloaded_pdfs
    /\ download_folder' = t.download_folder
    /\ run_pos' = pos
    /\ UNCHANGED annotater_vars
    /\ UNCHANGED << fzoom, fbox, fmode, fhandle, foffset, fprev, fsteps >>
    /\ UNCHANGED extractor_vars

\* The dict of document_types at place k of the shuffled list, and what
\* fill_remaining_slots records for backup query j of its shuffled list.
DocType(k) == [name |-> <<"type", k>>, query |-> <<"query", k>>]
MixedContent(j) == [name |-> "Mixed Content", query |-> <<"backup", j>>]

\* One round of run's loop over the shuffled document types.
RunCategoryWith(answers) ==
    /\ run_pos[1] = "categories"
    /\ run_pos[2] < NumDocumentTypes
    /\ Len(downloaded_pdfs) < target_count
    /\ \E results \in answers :
          DlBecomes(download_from_category(Dl, results, DocType(run_pos[2] + 1)),
                    <<"categories", run_pos[2] + 1>>)

RunCategory == RunCategoryWith(Answers)

\* The loop is over; fill_remaining_slots starts, or returns at once.
RunFill ==
    /\ run_pos[1] = "categories"
    /\ run_pos[2] = NumDocumentTypes \/ Len(downloaded_pdfs) >= target_count
    /\ DlBecomes(Dl, IF target_count - Len(downloaded_pdfs) <= 0
                     THEN <<"summary", 0>> ELSE <<"fill", 0>>)

\* One round of fill_remaining_slots's loop over the backup queries.
FillQueryWith(answers) ==
    /\ run_pos[1] = "fill"
    /\ run_pos[2] < NumBackupQueries
    /\ Len(downloaded_pdfs) < target_count
    /\ \E results \in answers :
          DlBecomes(download_from_category(Dl, results,
                                           MixedContent(run_pos[2] + 1)),
                    <<"fill", run_pos[2] + 1>>)

FillQuery == FillQueryWith(Answers)

\* save_download_log and print_summary: "All PDFs have <= 20 pages".
RunSummary ==
    /\ run_pos[1] = "fill"
    /\ run_pos[2] = NumBackupQueries \/ Len(downloaded_pdfs) >= target_count
    /\ DlBecomes(Dl, <<"summary", 0>>)

NextDownload == RunCategory \/ RunFill \/ FillQuery \/ RunSummary

SpecDownload == Init /\ [][NextDownload]_vars

(***************************************************************************)
(* A whole run: the archive has a file to keep for all but MaxMisses of    *)
(* the searches, so that the target is reached, in the loop over the       *)
(* document types or in fill_remaining_slots.  A result is without an      *)
(* identifier, without a PDF, fails to download, is too small, has too     *)
(* many pages, or is a file that is kept.                                  *)
(***************************************************************************)
MaxMisses == 2

Kept == Result("file", MinFileSize, max_pages, TRUE)

RunResults ==
    {Result(k, 0, 0, FALSE) : k \in {"noid", "nopdf", "fails"}}
    \cup {Result("file", MinFileSize - 1, max_pages, TRUE),
          Result("file", MinFileSize, max_pages + 1, TRUE), Kept}

RunLists == UNION {[1..n -> RunResults] : n \in 0..MaxResults}

\* The searches so far that gave no file.
Misses ==
    (IF run_pos[1] = "categories" THEN run_pos[2]
     ELSE NumDocumentTypes + run_pos[2]) - Len(downloaded_pdfs)

RunAnswers ==
    IF Misses < MaxMisses THEN RunLists
    ELSE {l \in RunLists : \E i \in 1..Len(l) : l[i] = Kept}

RunCategoryToTarget == RunCategoryWith(RunAnswers)
FillQueryToTarget == FillQueryWith(RunAnswers)

NextRun == RunCategoryToTarget \/ RunFill \/ FillQueryToTarget \/ RunSummary

\* Every call of run's loops returns (requests.get has a timeout).
SpecRun == Init /\ [][NextRun]_vars /\ WF_vars(NextRun)

\* ============================================ the x axis, in doubles
\* Events (zoom changes, draws, pointer-downs, moves, pointer-ups) in one
\* session of the x axis.
MaxSteps == 5

\* The pixels the pointer is at.
AxisPoints == {9, 19, 30}

axis_vars == << fzoom, fbox, fmode, fhandle, foffset, fprev, fsteps >>

AxisBecomes(z, box, mode, handle, offset, prev) ==
    /\ fsteps < MaxSteps
    /\ fzoom' = z
    /\ fbox' = box
    /\ fmode' = mode
    /\ fhandle' = handle
    /\ foffset' = offset
    /\ fprev' = prev
    /\ fsteps' = fsteps + 1
    /\ UNCHANGED annotater_vars
    /\ UNCHANGED downloader_vars
    /\ UNCHANGED extractor_vars

(***************************************************************************)
(* In the handlers below a value is named by a quantifier over the set of  *)
(* that one value, as in  \E x0 \in {c * zoom} : ...,  which is how the    *)
(* code's assignment x0 = c * zoom reads here.                             *)
(***************************************************************************)
\* change_zoom(0.2), change_zoom(-0.2)
FChangeZoom ==
    /\ fmode = "idle"
    /\ fsteps < MaxSteps
    /\ \E least \in {FOf(MIN_ZOOM)}, most \in {FOf(<<MaxZoomTenths, 10>>)} :
       \E delta \in ZoomDeltas :
       \E sum \in {FAdd(fzoom, FOf(delta))} :
       \E z \in {IF FLess(sum, least) THEN least ELSE sum} :
          /\ ~FLess(most, z)
          /\ AxisBecomes(z, fbox, fmode, fhandle, foffset, None)

\* on_mouse_up at the end of a draw from pixel x0 to pixel x1, and the
\* right-click that selects the new annotation (select_box changes no
\* coordinate).
FCommit ==
    /\ fmode = "idle"
    /\ fsteps < MaxSteps
    /\ \E x0 \in AxisPoints, x1 \in AxisPoints :
          /\ x0 < x1
          /\ IAbs(x1 - x0) > MIN_BOX
          /\ \E c0 \in {FDiv(FOf(<<x0, 1>>), fzoom)},
                c1 \in {FDiv(FOf(<<x1, 1>>), fzoom)} :
                AxisBecomes(fzoom, <<c0, c1>>, fmode, fhandle, foffset, None)

(***************************************************************************)
(* on_mouse_down on the selected annotation.  Of the pointer's y the x     *)
(* axis sees which handles it is near (those of the top edge, of the       *)
(* bottom edge, of the middle, or none) and whether it is inside the box.  *)
(* A pointer-down that hits neither a handle nor the body starts a draw,   *)
(* which leaves the selected annotation alone.                             *)
(***************************************************************************)
FDown ==
    /\ fmode = "idle"
    /\ fbox # None
    /\ fsteps < MaxSteps
    /\ \E size \in {FOf(<<HANDLE_SIZE, 1>>)},
          x0 \in {FMul(fbox[1], fzoom)}, x1 \in {FMul(fbox[2], fzoom)} :
       \E mid \in {FDiv(FAdd(x0, x1), FOf(<<2, 1>>))} :
       \E x \in AxisPoints :
       \E ex \in {FOf(<<x, 1>>)} :
       \E near0 \in {~FLess(size, [FSub(ex, x0) EXCEPT !.s = 1])},
          near1 \in {~FLess(size, [FSub(ex, x1) EXCEPT !.s = 1])},
          nearm \in {~FLess(size, [FSub(ex, mid) EXCEPT !.s = 1])},
          off \in {FSub(ex, x0)} :
       \E near \in {<<near0, near1, near0, near1, nearm, nearm, near0, near1>>},
          row \in {<<{0, 1, 4}, TRUE>>, <<{0, 1, 4}, FALSE>>,
                   <<{6, 7}, TRUE>>,
                   <<{2, 3, 5}, TRUE>>, <<{2, 3, 5}, FALSE>>,
                   <<{}, TRUE>>} :
       \E hit \in {{idx \in row[1] : near[idx + 1]}} :
          IF hit # {}
          THEN AxisBecomes(fzoom, fbox, "resizing",
                           CHOOSE idx \in hit : \A j \in hit : idx <= j,
                           foffset, None)
          ELSE /\ row[2]
               /\ ~FLess(ex, x0)
               /\ ~FLess(x1, ex)
               /\ AxisBecomes(fzoom, fbox, "dragging", fhandle, off, None)

\* on_mouse_drag
FMove ==
    /\ fmode # "idle"
    /\ fsteps < MaxSteps
    /\ IF fmode = "resizing"
       THEN \E px0 \in {FMul(fbox[1], fzoom)}, px1 \in {FMul(fbox[2], fzoom)} :
            \E x \in AxisPoints :
            \E ex \in {FOf(<<x, 1>>)} :
            \E x0 \in {IF fhandle \in {0, 4, 6} THEN ex ELSE px0},
               x1 \in {IF fhandle \in {1, 5, 7} THEN ex ELSE px1} :
            \E c0 \in {FDiv(x0, fzoom)}, c1 \in {FDiv(x1, fzoom)} :
               AxisBecomes(fzoom, <<c0, c1>>, fmode, fhandle, foffset, fbox)
       ELSE \E w \in {FMul(FSub(fbox[2], fbox[1]), fzoom)} :
            \E x \in AxisPoints :
            \E new_x0 \in {FSub(FOf(<<x, 1>>), foffset)} :
            \E c0 \in {FDiv(new_x0, fzoom)},
               c1 \in {FDiv(FAdd(new_x0, w), fzoom)} :
               AxisBecomes(fzoom, <<c0, c1>>, fmode, fhandle, foffset, fbox)

\* on_mouse_up
FUp ==
    /\ fmode # "idle"
    /\ AxisBecomes(fzoom, fbox, "idle",
                   IF fmode = "resizing" THEN NoHandle ELSE fhandle,
                   foffset, None)

NextAxis == FChangeZoom \/ FCommit \/ FDown \/ FMove \/ FUp

SpecAxis == Init /\ [][NextAxis]_vars

\* ============================================ the text extractor, alone
\* Characters on the page the extractor reads.
MaxChars == 3

(***************************************************************************)
(* A page of any text: up to MaxChars characters in the order rawdict      *)
(* gives them, each 10 x 10 units, at x 10 or 20 and at y 10, 10.2 (the    *)
(* same row, set a little lower) or 14 (the next row).  extract_text_      *)
(* precise is called with a rect that covers the page, one that covers its *)
(* left half, or one that only touches the characters' corner.             *)
(***************************************************************************)
RawChar(c, x, y) == [c |-> c, bbox |-> <<R(x), y, R(x + 10), RAdd(y, R(10))>>]

RawChars ==
    {RawChar(c, x, y) : c \in {"a", "b"}, x \in {10, 20},
                        y \in {R(10), <<51, 5>>, R(14)}}

RawPages == UNION {[1..n -> RawChars] : n \in 0..MaxChars}

QueryRects ==
    { <<R(0), R(0), R(100), R(100)>>, <<R(0), R(0), R(15), R(100)>>,
      <<R(0), R(0), R(10), R(10)>> }

\* extract_text_precise(page, rect), once
ExtractText ==
    /\ extracted = None
    /\ \E chars \in RawPages, rect \in QueryRects :
          /\ page_chars' = chars
          /\ query_rect' = rect
          /\ extracted' = <<TextOf(Overlapping(chars, rect))>>
    /\ UNCHANGED annotater_vars
    /\ UNCHANGED downloader_vars
    /\ UNCHANGED axis_vars

NextText == ExtractText

SpecText == Init /\ [][NextText]_vars

\* ================================================================ claims
\* The selected dict, now.
Selected == SelObj(St)

\* The edit machine's modes, as on_mouse_drag and on_mouse_up tell them apart.
Drawing == temp_rect # None /\ ~dragging /\ ~resizing
Resizing == resizing /\ selected_box # None

\* A step of the pointer handlers (button 1 is held before each of them).
UpStep == pressed /\ ~pressed'
DragStep == pressed /\ pressed' /\ last' = "on_mouse_drag"

(***************************************************************************)
(* C1.  In Drawing, pointer-up appends exactly one annotation if and only  *)
(* if the rectangle read back from the canvas is more than 10 pixels wide  *)
(* and more than 10 pixels high, and otherwise (a smaller rectangle, or no *)
(* rectangle left to read) leaves the Store as it is; the annotation has   *)
(* the current page, the chosen label, an empty text and the pixel         *)
(* rectangle divided by the zoom; pointer-move in Drawing leaves the Store *)
(* as it is.                                                               *)
(***************************************************************************)
C1_Committed ==
    [page |-> current_page,
     bbox_pdf |-> << RDiv(item[1], zoom), RDiv(item[2], zoom),
                     RDiv(item[3], zoom), RDiv(item[4], zoom) >>,
     bbox_is_tuple |-> FALSE, label |-> label_var, text |-> << >>]

C1_Wide ==
    /\ item # None
    /\ RLt(R(10), RAbs(RSub(item[3], item[1])))
    /\ RLt(R(10), RAbs(RSub(item[4], item[2])))

C1_DrawCommit ==
    [][ /\ (UpStep /\ Drawing) =>
            IF C1_Wide THEN annotations' = Append(annotations, C1_Committed)
                       ELSE annotations' = annotations
        /\ (DragStep /\ Drawing) => annotations' = annotations ]_vars

\* A 30 x 30 pixel rectangle drawn on page 2 with label H3 chosen, at zoom 1.5.
C1_Witness ==
    /\ last = "on_mouse_up" /\ ~raised
    /\ current_pdf = 1 /\ current_page = 1
    /\ Len(annotations) = 1
    /\ annotations[1] = [page |-> 1, bbox_pdf |-> <<R(0), R(0), R(20), R(20)>>,
                         bbox_is_tuple |-> FALSE, label |-> "H3", text |-> << >>]

(***************************************************************************)
(* C2.  In Resizing, a pointer-move with handle h grabbed sets x0 of the   *)
(* selected box to the pointer's x iff h is 0, 4 or 6, x1 iff h is 1, 5 or *)
(* 7, y0 iff h is 0, 1, 4 or 5, y1 iff h is 2, 3, 6 or 7, keeps its other  *)
(* coordinates, its page, label and text, and keeps every other annotation *)
(* of the Store.                                                           *)
(***************************************************************************)
C2_Coordinate(k, moves, e) ==
    Selected'.bbox_pdf[k] =
        IF resize_handle \in moves
        THEN RDiv(R(IF k \in {1, 3} THEN e[1] ELSE e[2]), zoom)
        ELSE Selected.bbox_pdf[k]

C3_Kept(anns) ==
    [i \in 1..Len(anns) |-> <<anns[i].page, anns[i].bbox_pdf, anns[i].label>>]

C3_Same(reloaded) ==
    /\ ~reloaded.exc
    /\ Len(reloaded.annotations) = Len(annotations)
    /\ C3_Kept(reloaded.annotations) = C3_Kept(annotations)

C3_RoundTrip ==
    current_pdf # NoDoc => C3_Same(load_annotations(save_annotations(St)))

\* The four headings detected on page 1 of document 1, saved on the way to
\* document 2 and loaded again on the way back.
C3_Witness ==
    /\ last = "prev_pdf" /\ ~raised /\ current_pdf = 1
    /\ Len(annotations) = 4
    /\ \A i \in 1..4 : ~annotations[i].bbox_is_tuple
    /\ annotations[1].bbox_pdf = <<R(10), R(20), R(110), R(70)>>
    /\ <<annotations[1].label, annotations[2].label,
         annotations[3].label, annotations[4].label>> = <<"TITLE", "H1", "H2", "BODY">>

(***************************************************************************)
(* C4.  Right after save_annotations with a document open, the sidecar of  *)
(* that document is a JSON array with one object per annotation of the     *)
(* Store, in the Store's order, each with the page, bbox, label and text   *)
(* of its annotation, and nothing else: what was deleted is not in it.     *)
(***************************************************************************)
C4_File == sidecar[current_pdf]

C4_SavedIsStore ==
    (last = "save_annotations" /\ current_pdf # NoDoc) =>
        /\ C4_File # None
        /\ C4_File[1] = "json"
        /\ Len(C4_File[2]) = Len(annotations)
        /\ \A i \in 1..Len(annotations) :
              /\ Member(C4_File[2][i], "page") = annotations[i].page
              /\ Member(C4_File[2][i], "bbox_pdf") = annotations[i].bbox_pdf
              /\ Member(C4_File[2][i], "label") = annotations[i].label
              /\ Member(C4_File[2][i], "text") = annotations[i].text

\* Document 2 saved after its first box was deleted: the sidecar of three
\* objects now has the two that are left.
C4_Witness ==
    /\ last = "save_annotations" /\ current_pdf = 2
    /\ Len(annotations) = 2
    /\ Len(sidecar[2][2]) = 2
    /\ Member(sidecar[2][2][1], "label") = "H4"
    /\ Member(sidecar[2][2][2], "label") = "BODY"

(***************************************************************************)
(* C5.  delete_selected with an annotation selected removes exactly that   *)
(* annotation, the others keeping their order and contents, and leaves     *)
(* nothing selected; with nothing selected it changes neither the Store    *)
(* nor the selection.                                                      *)
(***************************************************************************)
C5_DeleteExact ==
    [][ DeleteSelected =>
          IF selected_box # None
          THEN /\ \E i \in 1..Len(annotations) :
                     /\ annotations[i] = Selected
                     /\ annotations' = RemoveAt(annotations, i)
               /\ selected_box' = None
          ELSE /\ annotations' = annotations
               /\ selected_box' = None ]_vars

(***************************************************************************)
(* C6.  After a step that changes the page shown or the document open, no  *)
(* annotation is selected.                                                 *)
(***************************************************************************)
C6_SwitchClears ==
    [][ (current_page' # current_page \/ current_pdf' # current_pdf)
            => selected_box' = None ]_vars

(***************************************************************************)
(* C7.  auto_detect_headings appends to the Store, in the page's span      *)
(* order, one annotation per span whose text without the white space       *)
(* around it is longer than 2 characters, with that text, the current      *)
(* page, the span's rectangle and the label BODY up to size 12, H2 above   *)
(* 12, H1 above 14, TITLE above 18; sizes 20, 16, 13, 10 give TITLE, H1,   *)
(* H2, BODY.                                                               *)
(***************************************************************************)
C7_Label(size) ==
    CASE RLe(size, R(12)) -> "BODY"
      [] RLt(R(12), size) /\ RLe(size, R(14)) -> "H2"
      [] RLt(R(14), size) /\ RLe(size, R(18)) -> "H1"
      [] RLt(R(18), size) -> "TITLE"

\* The text between the first and the last character that is not white space.
C7_Trimmed(str) ==
    LET solid == {i \in 1..Len(str) : str[i] \notin Whitespace}
    IN  IF solid = {} THEN << >>
        ELSE SubSeq(str, CHOOSE i \in solid : \A j \in solid : i <= j,
                         CHOOSE i \in solid : \A j \in solid : i >= j)

C7_Long(sp) == Len(C7_Trimmed(sp.text)) > 2

C7_Expected ==
    LET spans == SelectSeq(PageSpans(current_pdf, current_page), C7_Long)
    IN  [i \in 1..Len(spans) |->
            [page |-> current_page, bbox_pdf |-> spans[i].bbox,
             bbox_is_tuple |-> TRUE, label |-> C7_Label(spans[i].size),
             text |-> C7_Trimmed(spans[i].text)]]

C7_Detection ==
    [][ (AutoDetect /\ current_pdf # NoDoc) =>
            annotations' = annotations \o C7_Expected ]_vars

\* Page 1 of document 1: spans of sizes 20, 16, 13, 10 (and one too short).
C7_Witness ==
    /\ last = "auto_detect_headings" /\ current_pdf = 1 /\ current_page = 0
    /\ Len(annotations) = 4
    /\ [i \in 1..4 |-> annotations[i].label] = <<"TITLE", "H1", "H2", "BODY">>
    /\ annotations[1].bbox_pdf = <<R(10), R(20), R(110), R(70)>>
    /\ annotations[3].text = <<"S", "u", "b">>

\* ---------------------------------------------------- claims on the exports
\* The label catalog, and a label's 1-based place in it.
Catalog == <<"TITLE", "H1", "H2", "H3", "H4", "BODY">>
CatalogId(label) == CHOOSE i \in 1..6 : Catalog[i] = label

\* The documents of the folder and their pages.
FolderDocs == {pdf_files[i] : i \in 1..Len(pdf_files)}
FolderPages == UNION {{d} \X (0..(NumPages(d) - 1)) : d \in FolderDocs}

\* The objects of the sidecar of d, an absent sidecar having none.
Objects(d) == IF sidecar[d] = None THEN << >> ELSE sidecar[d][2]

\* The entries <<d, j>> of the sidecars whose page their document has.
Exportable ==
    {e \in UNION {{d} \X (1..Len(Objects(d))) : d \in FolderDocs} :
        Member(Objects(e[1])[e[2]], "page") \in 0..(NumPages(e[1]) - 1)}

EntryPage(e) == Member(Objects(e[1])[e[2]], "page")
EntryBox(e) == Member(Objects(e[1])[e[2]], "bbox_pdf")
EntryLabel(e) == Member(Objects(e[1])[e[2]], "label")

TheCoco == coco[1]

\* The file name of the image a COCO record points at.
ImageOf(rec) ==
    LET k == CHOOSE k \in 1..Len(TheCoco.images) :
                 TheCoco.images[k].id = rec.image_id
    IN  TheCoco.images[k].file_name

(***************************************************************************)
(* C8.  Right after export_coco, coco.json has as many records as the      *)
(* sidecars of the folder have annotations on pages their documents have,  *)
(* and for each of these annotations as many records on its page's image   *)
(* with bbox [x0, y0, x1 - x0, y1 - y0], the label's 1-based catalog place *)
(* as category_id and iscrowd 0 as there are annotations like it; one      *)
(* image per page of every document; one category per label.               *)
(***************************************************************************)
C8_Due(e) ==
    << <<e[1], EntryPage(e) + 1>>,
       << EntryBox(e)[1], EntryBox(e)[2],
          RSub(EntryBox(e)[3], EntryBox(e)[1]),
          RSub(EntryBox(e)[4], EntryBox(e)[2]) >>,
       CatalogId(EntryLabel(e)), 0 >>

C8_Written(k) ==
    << ImageOf(TheCoco.annotations[k]), TheCoco.annotations[k].bbox,
       TheCoco.annotations[k].category_id, TheCoco.annotations[k].iscrowd >>

C8_CocoRecords ==
    (last = "export_coco" /\ ~raised) =>
        /\ Len(TheCoco.annotations) = Cardinality(Exportable)
        /\ \A e \in Exportable :
              Cardinality({k \in 1..Len(TheCoco.annotations) :
                              C8_Written(k) = C8_Due(e)})
              = Cardinality({f \in Exportable : C8_Due(f) = C8_Due(e)})
        /\ Len(TheCoco.images) = Cardinality(FolderPages)
        /\ \A q \in FolderPages :
              \E k \in 1..Len(TheCoco.images) :
                  TheCoco.images[k].file_name = <<q[1], q[2] + 1>>
        /\ Len(TheCoco.categories) = 6
        /\ \A i \in 1..6 :
              \E k \in 1..6 : TheCoco.categories[k] = [id |-> i, name |-> Catalog[i]]

\* The headings of page 1 of document 1 exported next to the sidecar of
\* document 2: [10, 20, 110, 70] is written as [10, 20, 100, 50], and the
\* H4 box on a page document 2 does not have is not written.
C8_Witness ==
    /\ last = "export_coco" /\ ~raised
    /\ Len(TheCoco.images) = 3
    /\ Len(Objects(1)) = 4 /\ Len(Objects(2)) = 3
    /\ Len(TheCoco.annotations) = 6
    /\ \E k \in 1..6 :
          /\ TheCoco.annotations[k].bbox = <<R(10), R(20), R(100), R(50)>>
          /\ TheCoco.annotations[k].category_id = 1
    /\ \A k \in 1..6 : TheCoco.annotations[k].category_id # 5

(***************************************************************************)
(* C9.  Right after export_coco, the images have the ids 1, 2, ... in the  *)
(* order of the documents' names and then of the pages; the records have   *)
(* the ids 1, 2, ... in the order of their documents, then of their pages, *)
(* then of their places in the sidecar; each record's image_id is the id   *)
(* of the image of its own document and page.                              *)
(***************************************************************************)
C9_ImageId(q) ==
    1 + Cardinality({r \in FolderPages :
                        r[1] < q[1] \/ (r[1] = q[1] /\ r[2] < q[2])})

C9_Before(f, e) ==
    \/ f[1] < e[1]
    \/ f[1] = e[1] /\ EntryPage(f) < EntryPage(e)
    \/ f[1] = e[1] /\ EntryPage(f) = EntryPage(e) /\ f[2] < e[2]

C9_RecordId(e) == 1 + Cardinality({f \in Exportable : C9_Before(f, e)})

C9_CocoIds ==
    (last = "export_coco" /\ ~raised) =>
        /\ Len(TheCoco.images) = Cardinality(FolderPages)
        /\ \A k \in 1..Len(TheCoco.images) : TheCoco.images[k].id = k
        /\ \A q \in FolderPages :
              TheCoco.images[C9_ImageId(q)].file_name = <<q[1], q[2] + 1>>
        /\ Len(TheCoco.annotations) = Cardinality(Exportable)
        /\ \A k \in 1..Len(TheCoco.annotations) : TheCoco.annotations[k].id = k
        /\ \A e \in Exportable :
              LET rec == TheCoco.annotations[C9_RecordId(e)]
              IN  /\ rec.image_id = C9_ImageId(<<e[1], EntryPage(e)>>)
                  /\ rec.category_id = CatalogId(EntryLabel(e))
                  /\ rec.bbox[1] = EntryBox(e)[1]
                  /\ rec.bbox[2] = EntryBox(e)[2]

\* Document 1 with a heading on each of its pages, the one on page 2 first
\* in the sidecar, and document 2 with its two boxes on its page: the records
\* 1..4 point at the images 1, 2, 3, 3.
C9_Witness ==
    /\ last = "export_coco" /\ ~raised
    /\ Len(Objects(1)) = 7
    /\ Member(Objects(1)[1], "page") = 1
    /\ Member(Objects(1)[Len(Objects(1))], "page") = 0
    /\ Len(Objects(2)) = 3
    /\ Len(TheCoco.annotations) >= 2
    /\ TheCoco.annotations[1].image_id = 1
    /\ TheCoco.annotations[Len(TheCoco.annotations)].image_id = 3
    /\ TheCoco.annotations[Len(TheCoco.annotations) - 1].image_id = 3
    /\ TheCoco.annotations[Len(TheCoco.annotations)].category_id = 6

(***************************************************************************)
(* C10.  Right after export_yolo, every page of every document of the      *)
(* folder has a label file; the file has one line per annotation of the    *)
(* document's sidecar on that page, in the sidecar's order (no line when   *)
(* there is none or no sidecar); a line has the label's catalog place less *)
(* one as class and, to the nearest millionth, (x0 + x1)/2 and x1 - x0     *)
(* over the page's pixel width, (y0 + y1)/2 and y1 - y0 over its height.   *)
(***************************************************************************)
\* The printed number f is the rational v to the nearest millionth.
C10_Prints(f, v) ==
    LET shown == IF f.neg THEN 0 - f.micro ELSE f.micro
    IN  2 * IAbs(shown * v[2] - v[1] * 1000000) <= v[2]

C10_OnPage(d, p) ==
    LET OnP(o) == Member(o, "page") = p
    IN  SelectSeq(Objects(d), OnP)

C10_Line(line, o, d, p) ==
    LET b == Member(o, "bbox_pdf")
        W == R(PixWidth(d, p))
        H == R(PixHeight(d, p))
    IN  /\ line[1] = CatalogId(Member(o, "label")) - 1
        /\ C10_Prints(line[2], RDiv(RDiv(RAdd(b[1], b[3]), R(2)), W))
        /\ C10_Prints(line[3], RDiv(RDiv(RAdd(b[2], b[4]), R(2)), H))
        /\ C10_Prints(line[4], RDiv(RSub(b[3], b[1]), W))
        /\ C10_Prints(line[5], RDiv(RSub(b[4], b[2]), H))

C10_YoloFiles ==
    (last = "export_yolo" /\ ~raised) =>
        \A q \in FolderPages :
            LET file == yolo[<<q[1], q[2] + 1>>]
                due == C10_OnPage(q[1], q[2])
            IN  /\ file # None
                /\ Len(file[1]) = Len(due)
                /\ \A k \in 1..Len(due) : C10_Line(file[1][k], due[k], q[1], q[2])

\* The four headings of page 1 of document 1 (the first: class 0, centre
\* (60, 45) and size 100 x 50 on a 200 x 400 page), no line for its page 2,
\* two lines for the page of document 2.
C10_Witness ==
    /\ last = "export_yolo" /\ ~raised
    /\ \A q \in {<<1, 1>>, <<1, 2>>, <<2, 1>>} : yolo[q] # None
    /\ Len(yolo[<<1, 1>>][1]) = 4
    /\ yolo[<<1, 1>>][1][1] =
          << 0, [neg |-> FALSE, micro |-> 300000], [neg |-> FALSE, micro |-> 112500],
                [neg |-> FALSE, micro |-> 500000], [neg |-> FALSE, micro |-> 125000] >>
    /\ yolo[<<1, 2>>] = << << >> >>
    /\ Len(yolo[<<2, 1>>][1]) = 2
    /\ yolo[<<2, 1>>][1][2][1] = 5

(***************************************************************************)
(* C11.  Right after export_yolo, each of the four normalized values of    *)
(* every line of every label file (x centre, y centre, width, height) is   *)
(* at least 0 and at most 1.                                               *)
(***************************************************************************)
C11_InUnit(f) == (f.neg => f.micro = 0) /\ f.micro <= 1000000

C11_YoloInUnit ==
    (last = "export_yolo" /\ ~raised) =>
        \A q \in FolderPages :
            LET file == yolo[<<q[1], q[2] + 1>>]
            IN  \A k \in 1..Len(file[1]) :
                    \A j \in 2..5 : C11_InUnit(file[1][k][j])

(***************************************************************************)
(* C12.  For every annotation of the Store, the COCO record, the YOLO line *)
(* and the text the extractor finds are those of the same annotation with  *)
(* its rectangle normalized (the lower corner first): a rectangle stored   *)
(* with x0 > x1 or y0 > y1 is read as the rectangle it covers.             *)
(***************************************************************************)
C12_Normalized(a) ==
    [a EXCEPT !.bbox_pdf = << RMin2(a.bbox_pdf[1], a.bbox_pdf[3]),
                              RMin2(a.bbox_pdf[2], a.bbox_pdf[4]),
                              RMax(a.bbox_pdf[1], a.bbox_pdf[3]),
                              RMax(a.bbox_pdf[2], a.bbox_pdf[4]) >>]

C12_SameFor(a, b) ==
    /\ CocoRecord(a, 1, 1) = CocoRecord(b, 1, 1)
    /\ YoloLine(a, PixWidth(current_pdf, a.page), PixHeight(current_pdf, a.page))
       = YoloLine(b, PixWidth(current_pdf, a.page), PixHeight(current_pdf, a.page))
    /\ a.page < NumPages(current_pdf) =>
          extract_text_precise(current_pdf, a.page, a.bbox_pdf)
          = extract_text_precise(current_pdf, a.page, b.bbox_pdf)

C12_NormalizedOnRead ==
    current_pdf # NoDoc =>
        \A i \in 1..Len(annotations) :
            C12_SameFor(annotations[i], C12_Normalized(annotations[i]))

(***************************************************************************)
(* C14.  After a document whose sidecar is not JSON has been opened        *)
(* (load_folder, prev_pdf, next_pdf), no error is left unhandled and the    *)
(* Store is empty: it does not hold the annotations of the document that   *)
(* was open before.                                                        *)
(***************************************************************************)
C14_Malformed ==
    /\ current_pdf # NoDoc
    /\ sidecar[current_pdf] # None
    /\ sidecar[current_pdf][1] # "json"

C14_MalformedStartsEmpty ==
    (last \in {"load_folder", "prev_pdf", "next_pdf"} /\ C14_Malformed) =>
        ~raised /\ annotations = << >>

(***************************************************************************)
(* C15.  delete_selected with a selection that is not an element of the    *)
(* Store (a dict of the list the last document switch replaced) ends       *)
(* without an error and leaves the Store as it is.                         *)
(***************************************************************************)
C15_DeleteNonMember ==
    [][ (DeleteSelected /\ selected_box # None /\ selected_box[1] = "obj") =>
            ~raised' /\ annotations' = annotations ]_vars

\* ------------------------------------------- claims on the pointer machine
Idle == temp_rect = None /\ ~dragging /\ ~resizing
Dragging == dragging /\ ~resizing /\ selected_box # None

\* The selected box on the canvas: its stored corners times the zoom.
SelX0 == RMul(Selected.bbox_pdf[1], zoom)
SelY0 == RMul(Selected.bbox_pdf[2], zoom)
SelX1 == RMul(Selected.bbox_pdf[3], zoom)
SelY1 == RMul(Selected.bbox_pdf[4], zoom)
SelMidX == RDiv(RAdd(SelX0, SelX1), R(2))
SelMidY == RDiv(RAdd(SelY0, SelY1), R(2))

\* Handle h is where the claims say: 0 top-left, 1 top-right, 2 bottom-left,
\* 3 bottom-right, 4 top-mid, 5 bottom-mid, 6 left-mid, 7 right-mid.
HandleX(h) ==
    IF h \in {0, 2, 6} THEN SelX0 ELSE IF h \in {1, 3, 7} THEN SelX1 ELSE SelMidX
HandleY(h) ==
    IF h \in {0, 1, 4} THEN SelY0 ELSE IF h \in {2, 3, 5} THEN SelY1 ELSE SelMidY

\* The step is the handler's run for the pointer at e.
DownAt(e) == pressed' /\ Becomes(on_mouse_down(St, e[1], e[2]), "on_mouse_down")
MoveTo(e) == pressed /\ Becomes(on_mouse_drag(St, e[1], e[2]), "on_mouse_drag")

(***************************************************************************)
(* C17.  A pointer-down in Idle with a box selected enters Resizing with   *)
(* the lowest-numbered handle that is within 8 pixels of the pointer on    *)
(* both axes, if there is one (whether or not the pointer is inside the    *)
(* box); else Dragging if the pointer is inside the box; else, and always  *)
(* with nothing selected, Drawing anchored at the pointer.  It enters one  *)
(* mode only and leaves the Store as it is.                                *)
(***************************************************************************)
C17_Near(e) ==
    {h \in 0..7 : /\ RLe(RAbs(RSub(R(e[1]), HandleX(h))), R(8))
                  /\ RLe(RAbs(RSub(R(e[2]), HandleY(h))), R(8))}

C17_Inside(e) ==
    /\ RLe(SelX0, R(e[1])) /\ RLe(R(e[1]), SelX1)
    /\ RLe(SelY0, R(e[2])) /\ RLe(R(e[2]), SelY1)

C17_Outcome(e) ==
    /\ annotations' = annotations
    /\ IF selected_box # None /\ C17_Near(e) # {}
       THEN /\ resizing' /\ ~dragging' /\ temp_rect' = None
            /\ resize_handle' \in C17_Near(e)
            /\ \A h \in C17_Near(e) : resize_handle' <= h
       ELSE IF selected_box # None /\ C17_Inside(e)
       THEN dragging' /\ ~resizing' /\ temp_rect' = None
       ELSE /\ temp_rect' # None /\ ~dragging' /\ ~resizing'
            /\ start_x' = R(e[1]) /\ start_y' = R(e[2])

C18_MovesX(h) == IF h \in {0, 2, 6} THEN 1 ELSE IF h \in {1, 3, 7} THEN 3 ELSE 0
C18_MovesY(h) == IF h \in {0, 1, 4} THEN 2 ELSE IF h \in {2, 3, 5} THEN 4 ELSE 0

C18_Expected(k, e) ==
    IF k = C18_MovesX(resize_handle) THEN RDiv(R(e[1]), zoom)
    ELSE IF k = C18_MovesY(resize_handle) THEN RDiv(R(e[2]), zoom)
    ELSE Selected.bbox_pdf[k]

C18_HandleGeometry ==
    [][ \A e \in Points :
          (Resizing /\ MoveTo(e)) =>
              \A k \in 1..4 : Selected'.bbox_pdf[k] = C18_Expected(k, e) ]_vars

(***************************************************************************)
(* C19.  In Dragging, a pointer-move to p puts the top-left corner of the  *)
(* selected box at (p - offset) / zoom, the offset being the one taken at  *)
(* pointer-down, keeps its width and height, its page, label and text,     *)
(* and keeps every other annotation.                                       *)
(***************************************************************************)
C19_Width(a) == RSub(a.bbox_pdf[3], a.bbox_pdf[1])
C19_Height(a) == RSub(a.bbox_pdf[4], a.bbox_pdf[2])

C20_Active ==
    (IF temp_rect # None THEN 1 ELSE 0) + (IF dragging THEN 1 ELSE 0)
    + (IF resizing THEN 1 ELSE 0)

C20_IdleAfterUp ==
    /\ last = "on_mouse_up" =>
          /\ ~dragging /\ ~resizing
          /\ resize_handle = NoHandle
          /\ temp_rect = None
    /\ C20_Active <= 1

\* ---------------------------------------------------------------- C16
\* The recorded file of an entry of downloaded_pdfs.
C16_File(i) == download_folder[downloaded_pdfs[i].filename]

\* C16: every PDF the downloader keeps on disk and records in
\* downloaded_pdfs has at most max_pages pages, whatever the page-count
\* check came to, the unreadable page count included.
C16_KeptWithinMaxPages ==
    \A i \in 1..Len(downloaded_pdfs) :
        /\ downloaded_pdfs[i].filename \in DOMAIN download_folder
        /\ C16_File(i).pages <= max_pages

\* ---------------------------------------------------------------- C13
\* r to pixel space and back, along x, as draw_annotations and on_mouse_drag
\* compute it.
C13_RoundTrip(c, z) == FDiv(FMul(c, z), z)

\* The exponent of c's unit in the last place.
C13_Exp(c) == IF c.m = << >> THEN -1100 ELSE c.e

C13_Max(i, j) == IF i < j THEN j ELSE i

\* |a - b| <= 2^e
C13_Within(a, b, e) ==
    \/ a = b
    \/ ~FLess([s |-> 1, m |-> BShl(<<1>>, 52), e |-> e - 52],
              [FSub(a, b) EXCEPT !.s = 1])

\* The coordinates a pointer-move in Resizing is not to change.
C13_Kept ==
    {k \in 1..2 : ~(k = 1 /\ fhandle \in {0, 4, 6})
                  /\ ~(k = 2 /\ fhandle \in {1, 5, 7})}

\* The last event was a pointer-move of the selected annotation.
C13_Moved == fprev # None

(***************************************************************************)
(* C13 as stated: for every zoom and every document-space rectangle,       *)
(* converting to pixel space (times the zoom) and back (divided by the     *)
(* zoom) returns the rectangle; so a pointer-move in Dragging or Resizing  *)
(* leaves every coordinate it is not to change, and the box's width when   *)
(* moving, equal to their previous values.                                 *)
(***************************************************************************)
C13_RoundTripExact ==
    /\ fbox # None =>
          \A k \in 1..2 : C13_RoundTrip(fbox[k], fzoom) = fbox[k]
    /\ C13_Moved =>
          IF fmode = "resizing"
          THEN \A k \in C13_Kept : fbox[k] = fprev[k]
          ELSE FSub(fbox[2], fbox[1]) = FSub(fprev[2], fprev[1])

(***************************************************************************)
(* C13, within floating tolerance: converting a coordinate to pixel space  *)
(* and back returns it to within one unit in its last place; a             *)
(* pointer-move in Resizing leaves every coordinate it is not to change    *)
(* within one unit in the last place of its previous value, and a          *)
(* pointer-move in Dragging leaves the width within four units in the last *)
(* place of the largest of the old and new coordinates.                    *)
(***************************************************************************)
C13_RoundTripWithinTolerance ==
    /\ fbox # None =>
          \A k \in 1..2 :
             C13_Within(C13_RoundTrip(fbox[k], fzoom), fbox[k],
                        C13_Exp(fbox[k]))
    /\ C13_Moved =>
          IF fmode = "resizing"
          THEN \A k \in C13_Kept :
                  C13_Within(fbox[k], fprev[k], C13_Exp(fprev[k]))
          ELSE C13_Within(FSub(fbox[2], fbox[1]), FSub(fprev[2], fprev[1]),
                          C13_Max(C13_Max(C13_Exp(fbox[1]), C13_Exp(fbox[2])),
                                  C13_Max(C13_Exp(fprev[1]), C13_Exp(fprev[2])))
                          + 2)

\* A pointer-move in Resizing after a zoom change has moved a coordinate it
\* was to keep, and a pointer-move in Dragging has changed the width.
C13_Witness ==
    /\ C13_Moved
    /\ fzoom # FOf(INIT_ZOOM)
    /\ fmode = "resizing"
    /\ \E k \in C13_Kept : fbox[k] # fprev[k]

C13_DragWitness ==
    /\ C13_Moved
    /\ fmode = "dragging"
    /\ FSub(fbox[2], fbox[1]) # FSub(fprev[2], fprev[1])

\* ---------------------------------------------------------------- C21
\* The step is select_box's run for a right-click at e.
ClickAt(e) == Becomes(select_box(St, e[1], e[2]), "select_box")

\* The annotations of the current page whose rectangle, scaled by the zoom,
\* has the pixel e in it.
C21_Under(e) ==
    {i \in 1..Len(annotations) :
        /\ annotations[i].page = current_page
        /\ RLe(RMul(annotations[i].bbox_pdf[1], zoom), R(e[1]))
        /\ RLe(R(e[1]), RMul(annotations[i].bbox_pdf[3], zoom))
        /\ RLe(RMul(annotations[i].bbox_pdf[2], zoom), R(e[2]))
        /\ RLe(R(e[2]), RMul(annotations[i].bbox_pdf[4], zoom))}

(***************************************************************************)
(* C21.  A right-click at pixel p, in any state, selects the first         *)
(* annotation in Store order that is on the current page and whose         *)
(* zoom-scaled rectangle contains p (so never one of another page); when   *)
(* there is none the selection stays as it was; the Store is not changed.  *)
(***************************************************************************)
C21_RightClick ==
    [][ \A e \in ClickPoints :
          ClickAt(e) =>
              /\ annotations' = annotations
              /\ IF C21_Under(e) = {}
                 THEN selected_box' = selected_box
                 ELSE /\ selected_box'[1] = "ref"
                      /\ selected_box'[2] \in C21_Under(e)
                      /\ \A i \in C21_Under(e) : selected_box'[2] <= i
                      /\ annotations'[selected_box'[2]].page = current_page' ]_vars

\* Document 2 with the sidecar of the earlier session: the third annotation
\* is selected although the second, of page 2, comes before it in the Store,
\* and the first, which a click at (30,10) also hits, is not the one clicked.
C21_Witness ==
    /\ last = "select_box" /\ ~raised
    /\ current_pdf = 2 /\ current_page = 0
    /\ Len(annotations) = 3
    /\ annotations[2].page = 1
    /\ selected_box = <<"ref", 3>>

\* ---------------------------------------------------------------- C22
\* What the step has appended to the Store.
C22_Appended == SubSeq(annotations', Len(annotations) + 1, Len(annotations'))

\* The place, among the spans of the current page, of the span a detected
\* annotation was made of.
C22_SpanOf(a) ==
    CHOOSE k \in 1..Len(PageSpans(current_pdf, current_page)) :
        PageSpans(current_pdf, current_page)[k].bbox = a.bbox_pdf

(***************************************************************************)
(* C22.  auto_detect_headings is additive: the annotations already in the  *)
(* Store stay, in their places and with their contents, as a prefix of the *)
(* new Store; the detected annotations come after them in span order; and  *)
(* a second run on the same page appends the sequence the first appended.  *)
(***************************************************************************)
C22_Additive ==
    [][ AutoDetect =>
          /\ Len(annotations') >= Len(annotations)
          /\ SubSeq(annotations', 1, Len(annotations)) = annotations
          /\ \A j \in 1..Len(C22_Appended) :
                /\ C22_Appended[j].page = current_page
                /\ \E k \in 1..Len(PageSpans(current_pdf, current_page)) :
                      PageSpans(current_pdf, current_page)[k].bbox
                          = C22_Appended[j].bbox_pdf
                /\ \A l \in 1..(j - 1) :
                      C22_SpanOf(C22_Appended[l]) < C22_SpanOf(C22_Appended[j])
          /\ (last = "auto_detect_headings" /\ Len(annotations) >= Len(C22_Appended)) =>
                SubSeq(annotations, Len(annotations) - Len(C22_Appended) + 1,
                       Len(annotations)) = C22_Appended ]_vars

\* Page 2 of document 1 detected twice: the three headings, and again.
C22_Witness ==
    /\ last = "auto_detect_headings" /\ ~raised
    /\ current_pdf = 1 /\ current_page = 1
    /\ Len(annotations) = 6
    /\ SubSeq(annotations, 1, 3) = SubSeq(annotations, 4, 6)
    /\ annotations[1].text = <<"O", "n", "e">>
    /\ annotations[3].text = <<"x", "y", "z">>

\* ---------------------------------------------------------------- C23
\* What a sidecar keeps of a Store for certain: page, bbox and label.
C23_Sequence(anns) ==
    [i \in 1..Len(anns) |-> <<anns[i].page, anns[i].bbox_pdf, anns[i].label>>]

(***************************************************************************)
(* C23.  Whenever the open document is replaced by another one (next_pdf,  *)
(* prev_pdf, or load_folder while a document is open), the Store is first  *)
(* written to the sidecar of the document that is left, so that coming     *)
(* back to it restores the annotation sequence (page, bbox, label) that    *)
(* was in memory when it was left.                                         *)
(***************************************************************************)
C23_PersistOnSwitch ==
    [][ ((LoadFolder \/ PrevPdf \/ NextPdf)
         /\ current_pdf # NoDoc /\ current_pdf' # current_pdf) =>
            /\ sidecar'[current_pdf] # None
            /\ sidecar'[current_pdf][1] = "json"
            /\ C23_Sequence(JsonLoad(sidecar'[current_pdf][2]))
                  = C23_Sequence(annotations) ]_vars

\* ---------------------------------------------------------------- C24
\* The pixels of the canvas the pointer can be at.
C24_Coords == {e[1] : e \in Points} \cup {e[2] : e \in Points}
C24_Last == CHOOSE m \in C24_Coords : \A c \in C24_Coords : c <= m
C24_Pixels == (0..C24_Last) \X (0..C24_Last)

\* Pixel p is inside the rectangle of a as it is drawn at zoom z.
C24_Inside(a, p, z) ==
    /\ RLe(RMul(a.bbox_pdf[1], z), R(p[1])) /\ RLe(R(p[1]), RMul(a.bbox_pdf[3], z))
    /\ RLe(RMul(a.bbox_pdf[2], z), R(p[2])) /\ RLe(R(p[2]), RMul(a.bbox_pdf[4], z))

\* In s, annotation i can be selected by a right-click inside it, then taken
\* by a pointer-down inside it, and removed by the Delete key.
C24_Usable(s, i) ==
    \E p \in C24_Pixels :
        /\ C24_Inside(s.annotations[i], p, s.zoom)
        /\ LET t == select_box(s, p[1], p[2])
               u == delete_selected(t)
           IN  /\ ~t.exc
               /\ t.selected_box = <<"ref", i>>
               /\ \E q \in C24_Pixels :
                     /\ C24_Inside(s.annotations[i], q, s.zoom)
                     /\ on_mouse_down(t, q[1], q[2]).dragging
               /\ ~u.exc
               /\ u.annotations = RemoveAt(s.annotations, i)
               /\ u.selected_box = None

(***************************************************************************)
(* C24.  Every annotation a draw commits on a page of an open document, in *)
(* whatever direction the rectangle was drawn, can afterwards (same page,  *)
(* same zoom) be selected by a right-click at a point inside the drawn     *)
(* rectangle, and once selected can be grabbed by a pointer-down inside it *)
(* (Dragging) and removed by delete_selected.                              *)
(***************************************************************************)
C24_DrawnIsUsable ==
    [][ (UpStep /\ Drawing /\ current_pdf # NoDoc
         /\ Len(annotations') = Len(annotations) + 1) =>
            C24_Usable(St', Len(annotations')) ]_vars

\* ---------------------------------------------------------------- C25
\* The characters the call collected, and the lines it grouped them into.
C25_Collected == Overlapping(page_chars, query_rect)
C25_Lines == TextLines(C25_Collected)

(***************************************************************************)
(* C25.  In the text extractor's result the characters of one output line  *)
(* (one visual row: y within 3 units of the line's anchor) are in          *)
(* ascending x order, whatever characters overlap the rectangle; a         *)
(* character more than 3 units below another is on a later line; and a     *)
(* rectangle no character strictly overlaps gives the empty string.        *)
(***************************************************************************)
C25_ReadingOrder ==
    extracted # None =>
        IF C25_Collected = << >> THEN extracted[1] = << >>
        ELSE /\ \A l \in 1..Len(C25_Lines) :
                   \A i, j \in 1..Len(C25_Lines[l]) :
                       i < j => RLe(C25_Lines[l][i].x, C25_Lines[l][j].x)
             /\ \A l, m \in 1..Len(C25_Lines) :
                   \A i \in 1..Len(C25_Lines[l]), j \in 1..Len(C25_Lines[m]) :
                       RLt(R(3), RSub(C25_Lines[m][j].y, C25_Lines[l][i].y))
                           => l < m

\* ---------------------------------------------------------------- C26
\* The step is change_zoom's run for a zoom button.
ZoomBy(delta) == Becomes(change_zoom(St, delta), "change_zoom")

(***************************************************************************)
(* C26.  After any sequence of change_zoom calls, with positive or         *)
(* negative deltas, the zoom is at least 0.5; and change_zoom changes no   *)
(* annotation's page, bbox, label or text, and not the selection.          *)
(***************************************************************************)
C26_ZoomFloor ==
    /\ RLe(<<1, 2>>, zoom)
    /\ [][ /\ RLe(<<1, 2>>, zoom')
           /\ \A delta \in ZoomDeltas :
                 ZoomBy(delta) =>
                     /\ Len(annotations') = Len(annotations)
                     /\ \A i \in 1..Len(annotations) :
                           /\ annotations'[i].page = annotations[i].page
                           /\ annotations'[i].bbox_pdf = annotations[i].bbox_pdf
                           /\ annotations'[i].label = annotations[i].label
                           /\ annotations'[i].text = annotations[i].text
                     /\ selected_box' = selected_box ]_vars

\* Zoomed out to the minimum, and once more, with an annotation selected.
C26_Witness ==
    /\ last = "change_zoom" /\ ~raised
    /\ zoom = <<1, 2>>
    /\ Len(annotations) = 3
    /\ selected_box = <<"ref", 1>>

\* ---------------------------------------------------------------- C27
\* The recorded PDFs of one search.
C27_From(query) ==
    {i \in 1..Len(downloaded_pdfs) : downloaded_pdfs[i].search_query = query}

C27_Bounded ==
    /\ Len(downloaded_pdfs) <= target_count
    /\ \A k \in 1..NumDocumentTypes :
          Cardinality(C27_From(<<"query", k>>)) <= 1
    /\ \A j \in 1..NumBackupQueries :
          Cardinality(C27_From(<<"backup", j>>)) <= 1
    /\ \A i, j \in 1..Len(downloaded_pdfs) :
          i # j => downloaded_pdfs[i].filename # downloaded_pdfs[j].filename

=============================================================================
